---- MODULE Spec2Model ----
(***************************************************************************)
(* Verification model of elvira-ai-agent: the Quota Governor               *)
(* (services/dailyLimitManager + the storage adapters' daily_limits),      *)
(* the Session Registry (services/sessionManager) and the Conversation     *)
(* Orchestrator (openAIClient/openaiClient + functionHandler).             *)
(*                                                                         *)
(* Every await of the source is a suspension point: the code between two   *)
(* awaits is one step of the process that runs it.                         *)
(***************************************************************************)
EXTENDS Integers, Sequences, FiniteSets, TLC

VARIABLES
    \* ---- configuration (process.env) ----
    storageType,   \* DB_STORAGE: "local" | "postgres"
    resetHour,     \* DAILY_LIMIT_RESET_HOUR
    \* ---- Quota Governor ----
    clock,         \* wall clock [day, hour]
    rows,          \* every DailyLimit object ever created, indexed by its id
    dailyLimits,   \* ids of the rows currently in the store
    procs,         \* in-flight quota calls (one record per caller)
    lastCall,      \* verdict of the last completed recordMessageUsage call
    lastCheck,     \* the UsageCheck last returned by checkMessageQuota
    exhaustedAt,   \* per user: when its budget was last seen used up
    lastSweep,     \* when resetExpiredDailyLimits last cleared rows
    tally,         \* per user: calls / admissions of the current day
    \* ---- Storage Port: users, chats, messages ----
    users,         \* user store: userId -> [blocked]
    chatsMetadata, \* chat records: chatId -> NoChat | [userId, messageCount]
    chats,         \* persisted Message log of each chat
    nextMessageId, \* source of fresh message identifiers
    \* ---- Session Registry ----
    sessions,      \* every OpenAIClient ever constructed, indexed by its identity
    chatSessions,  \* chatId -> the registered session (NoSession when none)
    messagesQueues,\* chatId -> NoQueue | the event queue
    \* ---- request handlers in flight ----
    handlers,      \* per handler: what it runs and where it is suspended
    nRequests      \* completion requests issued so far

quotaVars == <<storageType, resetHour, clock, rows, dailyLimits, procs,
               lastCall, lastCheck, exhaustedAt, lastSweep, tally>>

storeVars == <<users, chatsMetadata, chats, nextMessageId>>

regVars == <<storeVars, sessions, chatSessions, messagesQueues, handlers, nRequests>>

vars == <<quotaVars, regVars>>

(***************************************************************************)
(* Bounds of the model                                                     *)
(***************************************************************************)
MaxDay == 1
HourStep == 12
MaxRows == 4
MessagesPerDay == 2
TokensPerDay == 3
MaxTokensUsed == 2
MaxSessions == 3
MaxRequests == 3
MaxLogLen == 3

Users == {"u1", "u2"}
QuotaUsers == {"u1"}
Days == 0..MaxDay
TokenInputs == {0, MaxTokensUsed}
Callers == {"a", "b"}
StorageTypes == {"local", "postgres"}
ResetHours == {0, 12}

Min(a, b) == IF a < b THEN a ELSE b
Max(a, b) == IF a > b THEN a ELSE b

NoRow == 0
NoTime == [day |-> -1, hour |-> 0]
NoSnap == [none |-> TRUE]

(***************************************************************************)
(* Query weight (services/queryWeightCalculator.ts)                        *)
(***************************************************************************)
LIBRARY_KEYWORDS ==
    {"book", "entry", "title", "author", "category", "published", "language",
     "summary", "catalog", "readium", "literature", "library", "search",
     "find", "list", "filter", "query entries", "get entries", "display books"}

COMPLEX_KEYWORDS ==
    {"analysis", "synthesis", "summarize", "compare", "contrast", "explain",
     "calculate", "solve", "optimize", "design", "create", "generate",
     "write", "compose", "translate"}

\* A query is the set of keywords its lower-cased text includes and its length.
LongQueryLength == 500

Queries ==
    { [words |-> {"find", "book"}, length |-> 22],        \* "find me books about AI"
      [words |-> {"write"}, length |-> 13],
      [words |-> {"write", "compose", "author"}, length |-> 48],
      [words |-> {}, length |-> 501],
      [words |-> {}, length |-> 5] }

\* queries for the weighing itself: any choice among two catalog keywords and
\* six complex keywords, at a short length and on either side of LongQueryLength
WeightWords == {"book", "find",
                "write", "compose", "explain", "design", "create", "solve"}

WeightQueries ==
    {[words |-> w, length |-> n] :
        w \in SUBSET WeightWords,
        n \in {50, LongQueryLength, LongQueryLength + 1}}

\* a faulty analysis: a tie of nonzero hit counts is taken for a complex query
analyzeQueryComplexityTieIsComplex(query) ==
    LET libraryScore == Cardinality(query.words \cap LIBRARY_KEYWORDS)
        complexScore == Cardinality(query.words \cap COMPLEX_KEYWORDS)
    IN  IF libraryScore > complexScore
          THEN [weight |-> 10, category |-> "library_related"]
        ELSE IF complexScore >= libraryScore /\ complexScore > 0
          THEN [weight |-> Min(30, 15 + complexScore * 3), category |-> "complex"]
        ELSE IF query.length > LongQueryLength
          THEN [weight |-> 15, category |-> "other"]
        ELSE [weight |-> 10, category |-> "other"]

\* weights are kept in tenths (1.0 = 10) so that 1.5 + 0.3 * c stays integral
analyzeQueryComplexity(query) ==
    LET libraryScore == Cardinality(query.words \cap LIBRARY_KEYWORDS)
        complexScore == Cardinality(query.words \cap COMPLEX_KEYWORDS)
    IN  IF libraryScore > complexScore
          THEN [weight |-> 10, category |-> "library_related"]
        ELSE IF complexScore > libraryScore /\ complexScore > 0
          THEN [weight |-> Min(30, 15 + complexScore * 3), category |-> "complex"]
        ELSE IF query.length > LongQueryLength
          THEN [weight |-> 15, category |-> "other"]
        ELSE [weight |-> 10, category |-> "other"]

calculateQueryWeight(query) == analyzeQueryComplexity(query).weight

\* Math.ceil(weight) on tenths
CeilTenths(w) == (w + 9) \div 10

(***************************************************************************)
(* Clock (services/dailyLimitManager: getTodayDate, getNextResetTime)      *)
(***************************************************************************)
Before(t1, t2) == t1.day < t2.day \/ (t1.day = t2.day /\ t1.hour < t2.hour)

getTodayDate == clock.day

getNextResetTime ==
    IF resetHour <= clock.hour
      THEN [day |-> clock.day + 1, hour |-> resetHour]
      ELSE [day |-> clock.day, hour |-> resetHour]

\* the latest reset instant that is not after the clock
LastResetTime ==
    IF resetHour <= clock.hour
      THEN [day |-> clock.day, hour |-> resetHour]
      ELSE [day |-> clock.day - 1, hour |-> resetHour]

(***************************************************************************)
(* Storage Port: daily limits (localAdapter.ts / postgres adapter)         *)
(***************************************************************************)
RowsFor(dl, rws, userId, date) ==
    {id \in dl : rws[id].user_id = userId /\ rws[id].date = date}

getDailyLimit(dl, rws, userId, date) ==
    IF RowsFor(dl, rws, userId, date) = {} THEN NoRow
    ELSE CHOOSE id \in RowsFor(dl, rws, userId, date) : TRUE

NewRow(userId, date, messagesLimit, tokensLimit) ==
    [user_id |-> userId, date |-> date,
     messages_used |-> 0, messages_limit |-> messagesLimit,
     tokens_used |-> 0, tokens_limit |-> tokensLimit]

\* local: this.dailyLimits[key] = limit   (the key's previous object is dropped)
\* postgres: INSERT ... ; UNIQUE (user_id, date) rejects a second row
createDailyLimit(dl, rws, userId, date, messagesLimit, tokensLimit) ==
    IF storageType = "postgres" /\ RowsFor(dl, rws, userId, date) # {}
      THEN [ok |-> FALSE, id |-> NoRow, rows |-> rws, dailyLimits |-> dl]
      ELSE [ok |-> TRUE, id |-> Len(rws) + 1,
            rows |-> Append(rws, NewRow(userId, date, messagesLimit, tokensLimit)),
            dailyLimits |-> (dl \ RowsFor(dl, rws, userId, date)) \cup {Len(rws) + 1}]

\* only a row that is in the store is found by its id
incrementDailyLimitUsage(dl, rws, dailyLimitId, messages, tokens) ==
    IF dailyLimitId \in dl
      THEN [rws EXCEPT ![dailyLimitId].messages_used = @ + messages,
                       ![dailyLimitId].tokens_used = @ + tokens]
      ELSE rws

resetDailyLimits(dl, rws, date) == {id \in dl : rws[id].date # date}

(***************************************************************************)
(* Quota Governor (services/dailyLimitManager)                             *)
(***************************************************************************)
\* a faulty message check: it denies the message that brings usage to the limit
MessageQuotaExceededAtLimit(limit, messagesUsed) ==
    limit.messages_used + messagesUsed >= limit.messages_limit

MessageQuotaExceeded(limit, messagesUsed) ==
    limit.messages_used + messagesUsed > limit.messages_limit

TokenQuotaExceeded(limit, tokensUsed) ==
    limit.tokens_used + tokensUsed > limit.tokens_limit

UsageCheckOf(limit) ==
    [allowed |-> limit.messages_used < limit.messages_limit,
     remaining |-> Max(0, limit.messages_limit - limit.messages_used),
     limit |-> limit.messages_limit,
     resetAt |-> getNextResetTime]

\* a faulty recordMessageUsage: the message count is charged before the token check
recordMessageUsageChargesFirst(dl, rws, userId, query, tokensUsed) ==
    LET today == getTodayDate
        found == getDailyLimit(dl, rws, userId, today)
        made == IF found = NoRow
                  THEN createDailyLimit(dl, rws, userId, today, MessagesPerDay, TokensPerDay)
                  ELSE [ok |-> TRUE, id |-> found, rows |-> rws, dailyLimits |-> dl]
        limit == made.rows[made.id]
        messagesUsed == CeilTenths(calculateQueryWeight(query))
    IN  IF MessageQuotaExceeded(limit, messagesUsed)
          THEN [admitted |-> FALSE, cause |-> "messages", id |-> made.id,
                rows |-> made.rows, dailyLimits |-> made.dailyLimits]
        ELSE IF TokenQuotaExceeded(limit, tokensUsed)
          THEN [admitted |-> FALSE, cause |-> "tokens", id |-> made.id,
                rows |-> incrementDailyLimitUsage(made.dailyLimits, made.rows, made.id,
                                                  messagesUsed, 0),
                dailyLimits |-> made.dailyLimits]
        ELSE [admitted |-> TRUE, cause |-> "none", id |-> made.id,
              rows |-> incrementDailyLimitUsage(made.dailyLimits, made.rows, made.id,
                                                messagesUsed, tokensUsed),
              dailyLimits |-> made.dailyLimits]

\* recordMessageUsage run without interruption; the store it leaves and its verdict
recordMessageUsage(dl, rws, userId, query, tokensUsed) ==
    LET today == getTodayDate
        found == getDailyLimit(dl, rws, userId, today)
        made == IF found = NoRow
                  THEN createDailyLimit(dl, rws, userId, today, MessagesPerDay, TokensPerDay)
                  ELSE [ok |-> TRUE, id |-> found, rows |-> rws, dailyLimits |-> dl]
        limit == made.rows[made.id]
        messagesUsed == CeilTenths(calculateQueryWeight(query))
    IN  IF MessageQuotaExceeded(limit, messagesUsed)
          THEN [admitted |-> FALSE, cause |-> "messages", id |-> made.id,
                rows |-> made.rows, dailyLimits |-> made.dailyLimits]
        ELSE IF TokenQuotaExceeded(limit, tokensUsed)
          THEN [admitted |-> FALSE, cause |-> "tokens", id |-> made.id,
                rows |-> made.rows, dailyLimits |-> made.dailyLimits]
        ELSE [admitted |-> TRUE, cause |-> "none", id |-> made.id,
              rows |-> incrementDailyLimitUsage(made.dailyLimits, made.rows, made.id,
                                                messagesUsed, tokensUsed),
              dailyLimits |-> made.dailyLimits]

\* the counters stored for a (user, date); 0 when there is no row
StoredUsage(dl, rws, userId, date) ==
    LET id == getDailyLimit(dl, rws, userId, date)
    IN  IF id = NoRow THEN [messages |-> 0, tokens |-> 0]
        ELSE [messages |-> rws[id].messages_used, tokens |-> rws[id].tokens_used]

\* whether the store dl2, rws2 holds other counters than the store dl1, rws1
UsageDiffers(dl1, rws1, dl2, rws2) ==
    \E u \in QuotaUsers, d \in Days :
        StoredUsage(dl2, rws2, u, d) # StoredUsage(dl1, rws1, u, d)

NoCall == [user |-> "none", cause |-> "none", changed |-> FALSE]
NoCheck == [user |-> "none"]
NoQuery == [words |-> {}, length |-> 0]
IdleCall == [pc |-> "idle", op |-> "none", userId |-> "none", query |-> NoQuery,
             tokensUsed |-> 0, today |-> 0, limit |-> NoRow, snap |-> NoSnap]
FreshTally(day) == [day |-> day, calls |-> 0, admitted |-> 0, plain |-> TRUE]
SpoiltTally(day) == [day |-> day, calls |-> 0, admitted |-> 0, plain |-> FALSE]

\* the tally of a user's calls of today, given the call that just completed; it
\* counts only while every call of the day had weight 1.0 and enough token budget
TallyAfter(t, day, cost, res) ==
    LET cur == IF t.day = day THEN t ELSE FreshTally(day)
    IN  IF cur.plain /\ cost = 1 /\ res.cause # "tokens"
          THEN [day |-> day, calls |-> cur.calls + 1,
                admitted |-> cur.admitted + (IF res.admitted THEN 1 ELSE 0),
                plain |-> TRUE]
          ELSE SpoiltTally(day)

ExhaustedAfter(prev, row) ==
    IF row.messages_used >= row.messages_limit
      THEN (IF prev # NoTime /\ prev.day = clock.day THEN prev ELSE clock)
      ELSE NoTime

RecordMessageUsage(userId, query, tokensUsed) ==
    LET res == recordMessageUsage(dailyLimits, rows, userId, query, tokensUsed)
        cost == CeilTenths(calculateQueryWeight(query))
        t == TallyAfter(tally[userId], getTodayDate, cost, res)
    IN  /\ Len(res.rows) <= MaxRows
        /\ t.calls <= MessagesPerDay + 1
        /\ rows' = res.rows
        /\ dailyLimits' = res.dailyLimits
        /\ lastCall' = [user |-> userId, cause |-> res.cause,
                        changed |-> UsageDiffers(dailyLimits, rows, res.dailyLimits, res.rows)]
        /\ lastCheck' = NoCheck
        /\ tally' = [tally EXCEPT ![userId] = t]
        /\ exhaustedAt' = [exhaustedAt EXCEPT ![userId] = ExhaustedAfter(@, res.rows[res.id])]
        /\ UNCHANGED regVars
        /\ UNCHANGED <<storageType, resetHour, clock, procs, lastSweep>>

CheckMessageQuota(userId) ==
    LET today == getTodayDate
        found == getDailyLimit(dailyLimits, rows, userId, today)
        made == IF found = NoRow
                  THEN createDailyLimit(dailyLimits, rows, userId, today,
                                        MessagesPerDay, TokensPerDay)
                  ELSE [ok |-> TRUE, id |-> found, rows |-> rows, dailyLimits |-> dailyLimits]
    IN  /\ Len(made.rows) <= MaxRows
        /\ rows' = made.rows
        /\ dailyLimits' = made.dailyLimits
        /\ lastCheck' = [user |-> userId, check |-> UsageCheckOf(made.rows[made.id])]
        /\ UNCHANGED regVars
        /\ UNCHANGED <<storageType, resetHour, clock, procs, lastCall, exhaustedAt,
                       lastSweep, tally>>

\* the periodic sweep: past the reset hour it clears the rows of yesterday's date
ResetExpiredDailyLimits ==
    /\ IF clock.hour >= resetHour
         THEN /\ dailyLimits' = resetDailyLimits(dailyLimits, rows, clock.day - 1)
              /\ lastSweep' = clock
         ELSE UNCHANGED <<dailyLimits, lastSweep>>
    /\ lastCheck' = NoCheck
    /\ UNCHANGED regVars
    /\ UNCHANGED <<storageType, resetHour, clock, rows, procs, lastCall, exhaustedAt, tally>>

Tick ==
    /\ LET h == clock.hour + HourStep
       IN  clock' = IF h >= 24 THEN [day |-> clock.day + 1, hour |-> h - 24]
                    ELSE [day |-> clock.day, hour |-> h]
    /\ clock'.day <= MaxDay
    /\ lastCheck' = NoCheck
    /\ UNCHANGED regVars
    /\ UNCHANGED <<storageType, resetHour, rows, dailyLimits, procs, lastCall,
                   exhaustedAt, lastSweep, tally>>

(***************************************************************************)
(* The same calls with their suspension points: each await of              *)
(* recordMessageUsage / checkMessageQuota ends a step, and the calls of    *)
(* different callers interleave between steps.                             *)
(***************************************************************************)
\* what a caller holds in `limit`: the stored object itself (local adapter)
\* or the row as it was read (postgres adapter)
Held(rws, id) == IF storageType = "postgres" THEN rws[id] ELSE NoSnap

LimitOf(p) == IF storageType = "postgres" THEN procs[p].snap ELSE rows[procs[p].limit]

ConcQueries == {q \in Queries : q.length < 20}

\* const today = getTodayDate(); let limit = await db.getDailyLimit(userId, today)
CallStart(p, op, userId, query, tokensUsed) ==
    /\ procs[p].pc = "idle"
    /\ LET found == getDailyLimit(dailyLimits, rows, userId, getTodayDate)
       IN  procs' = [procs EXCEPT ![p] =
                [pc |-> "got", op |-> op, userId |-> userId, query |-> query,
                 tokensUsed |-> tokensUsed, today |-> getTodayDate, limit |-> found,
                 snap |-> IF found = NoRow THEN NoSnap ELSE Held(rows, found)]]
    /\ UNCHANGED regVars
    /\ UNCHANGED <<storageType, resetHour, clock, rows, dailyLimits, lastCall, lastCheck,
                   exhaustedAt, lastSweep, tally>>

\* if (!limit) limit = await db.createDailyLimit(...)
CallCreate(p) ==
    /\ procs[p].pc = "got"
    /\ procs[p].limit = NoRow
    /\ Len(rows) < MaxRows
    /\ LET made == createDailyLimit(dailyLimits, rows, procs[p].userId, procs[p].today,
                                    MessagesPerDay, TokensPerDay)
       IN  IF made.ok
             THEN /\ rows' = made.rows
                  /\ dailyLimits' = made.dailyLimits
                  /\ procs' = [procs EXCEPT ![p].pc = "have", ![p].limit = made.id,
                                            ![p].snap = Held(made.rows, made.id)]
             ELSE \* the INSERT is rejected and the call throws
                  /\ procs' = [procs EXCEPT ![p] = IdleCall]
                  /\ UNCHANGED <<rows, dailyLimits>>
    /\ UNCHANGED regVars
    /\ UNCHANGED <<storageType, resetHour, clock, lastCall, lastCheck, exhaustedAt,
                   lastSweep, tally>>

\* checkMessageQuota returns its UsageCheck
CheckReturn(p) ==
    /\ procs[p].op = "check"
    /\ \/ procs[p].pc = "have"
       \/ procs[p].pc = "got" /\ procs[p].limit # NoRow
    /\ lastCheck' = [user |-> procs[p].userId, check |-> UsageCheckOf(LimitOf(p))]
    /\ procs' = [procs EXCEPT ![p] = IdleCall]
    /\ UNCHANGED regVars
    /\ UNCHANGED <<storageType, resetHour, clock, rows, dailyLimits, lastCall,
                   exhaustedAt, lastSweep, tally>>

\* const weight = await calculateQueryWeight(query)
RecordWeigh(p) ==
    /\ procs[p].op = "record"
    /\ \/ procs[p].pc = "have"
       \/ procs[p].pc = "got" /\ procs[p].limit # NoRow
    /\ procs' = [procs EXCEPT ![p].pc = "weighed"]
    /\ UNCHANGED regVars
    /\ UNCHANGED <<storageType, resetHour, clock, rows, dailyLimits, lastCall, lastCheck,
                   exhaustedAt, lastSweep, tally>>

\* the two quota checks and the call of db.incrementDailyLimitUsage
RecordSettle(p) ==
    /\ procs[p].pc = "weighed"
    /\ LET limit == LimitOf(p)
           messagesUsed == CeilTenths(calculateQueryWeight(procs[p].query))
       IN  IF \/ MessageQuotaExceeded(limit, messagesUsed)
              \/ TokenQuotaExceeded(limit, procs[p].tokensUsed)
             THEN UNCHANGED rows
             ELSE rows' = incrementDailyLimitUsage(dailyLimits, rows, procs[p].limit,
                                                   messagesUsed, procs[p].tokensUsed)
    /\ procs' = [procs EXCEPT ![p] = IdleCall]
    /\ UNCHANGED regVars
    /\ UNCHANGED <<storageType, resetHour, clock, dailyLimits, lastCall, lastCheck,
                   exhaustedAt, lastSweep, tally>>

(***************************************************************************)
(* Values of the conversation model                                        *)
(***************************************************************************)
Chats == {"c1", "c2"}
Handlers == {"h1", "h2"}

\* an optional value: `undefined` is [def |-> FALSE] with a filler of the same type
Undefined(filler) == [def |-> FALSE, v |-> filler]
Some(value) == [def |-> TRUE, v |-> value]

\* A text is the sequence of its parts: free text, the "[Displayed n book(s)
\* with IDs: ...]" marker and the "[Book Catalogs: {...}]" marker.  A catalog
\* mapping (JSON object bookId -> catalogId) is a set of pairs.
Plain(str) == << [kind |-> "plain", s |-> str, ids |-> << >>, info |-> {}] >>
Displayed(bookIds) == << [kind |-> "displayed", s |-> "", ids |-> bookIds, info |-> {}] >>
BookCatalogs(info) == << [kind |-> "catalogs", s |-> "", ids |-> << >>, info |-> info] >>
Includes(text, kind) == \E i \in 1..Len(text) : text[i].kind = kind

\* message ids: the provider's "msg_..." ids, other strings, or one synthesized
\* from a stored message's uuid
ProviderId(n) == [form |-> "msg_", src |-> "provider", n |-> n]
NoMsgId == [form |-> "undefined", src |-> "none", n |-> 0]

(***************************************************************************)
(* Transcript items (openai ResponseInput)                                 *)
(***************************************************************************)
\* the arguments of a tool call: whether the string parses as JSON, and the
\* properties the handlers read or the tool schemas name (ids, books as the
\* mapping bookId -> catalogId, id, catalogId)
NoArguments ==
    [parses |-> TRUE, ids |-> Undefined(<< >>), books |-> Undefined({}),
     id |-> "undefined", catalogId |-> "undefined"]
NoOutput == [success |-> TRUE, error |-> ""]

Item(type, id, callId, text, name, arguments, output) ==
    [type |-> type, id |-> id, call_id |-> callId, text |-> text, name |-> name,
     arguments |-> arguments, output |-> output]

UserTurn(text) == Item("user", NoMsgId, 0, text, "", NoArguments, NoOutput)
AssistantTurn(id, text) == Item("message", id, 0, text, "", NoArguments, NoOutput)
FunctionCall(callId, name, arguments) ==
    Item("function_call", NoMsgId, callId, << >>, name, arguments, NoOutput)
FunctionCallOutput(callId, output) ==
    Item("function_call_output", NoMsgId, callId, << >>, "", NoArguments, output)
Reasoning == Item("reasoning", NoMsgId, 0, << >>, "", NoArguments, NoOutput)

(***************************************************************************)
(* Storage Port: chats and messages (localStore.ts)                        *)
(***************************************************************************)
NoChat ==
    [exists |-> FALSE, userId |-> "none", startedAt |-> NoTime, title |-> "undefined",
     messageCount |-> 0]

\* a faulty createChat: it writes the record also when the chat exists
createChatLocalOverwrites(meta, chatId, userId, title, now) ==
    [meta EXCEPT ![chatId] = [exists |-> TRUE, userId |-> userId, startedAt |-> now,
                              title |-> title, messageCount |-> 0]]

\* the chat record is created once; a second call returns the existing one
createChatLocal(meta, chatId, userId, title, now) ==
    IF meta[chatId].exists THEN meta
    ELSE [meta EXCEPT ![chatId] = [exists |-> TRUE, userId |-> userId, startedAt |-> now,
                                   title |-> title, messageCount |-> 0]]

\* PostgresDatabaseAdapter.createChat: INSERT ... ON CONFLICT (id) DO NOTHING;
\* message_count starts at its default 0, `title || null` is stored
createChatPostgres(meta, chatId, userId, title, now) ==
    IF meta[chatId].exists THEN meta
    ELSE [meta EXCEPT ![chatId] = [exists |-> TRUE, userId |-> userId, startedAt |-> now,
                                   title |-> IF title = "undefined" THEN "null" ELSE title,
                                   messageCount |-> 0]]

\* what createChat returns: the stored record (local), or the row given by
\* RETURNING or, when nothing was inserted, by the SELECT (postgres)
NoChatRecord ==
    [isNull |-> TRUE, chatId |-> "none", userId |-> "none", startedAt |-> NoTime]

ChatRecord(meta, chatId) ==
    IF meta[chatId].exists
      THEN [isNull |-> FALSE, chatId |-> chatId, userId |-> meta[chatId].userId,
            startedAt |-> meta[chatId].startedAt]
      ELSE NoChatRecord

Message(id, sender, text, msgId, bookIds, bookCatalogs, userId) ==
    [id |-> id, sender |-> sender, text |-> text, msg_id |-> msgId,
     bookIds |-> bookIds, bookCatalogs |-> bookCatalogs, userId |-> userId,
     timestamp |-> NoTime]

\* the store (w.chats, w.chatsMetadata, w.nextMessageId) after logMessageLocal;
\* `timestamp: new Date().toISOString()` is the reading of the clock, w.now
logMessageLocal(w, chatId, sender, text, msgId, bookIds, bookCatalogs, userId) ==
    [w EXCEPT !.chats[chatId] =
                  Append(@, [Message(w.nextMessageId, sender, text, msgId, bookIds,
                                     bookCatalogs, userId) EXCEPT !.timestamp = w.now]),
              !.chatsMetadata[chatId].messageCount =
                  IF w.chatsMetadata[chatId].exists THEN @ + 1 ELSE @,
              !.nextMessageId = @ + 1]

\* trigger_update_chat_statistics: every row inserted into (deleted from)
\* messages adds 1 to (takes 1 from) message_count of the row's chat
update_chat_statistics(meta, chatId, inserted) ==
    IF meta[chatId].exists THEN [meta EXCEPT ![chatId].messageCount = @ + inserted]
    ELSE meta

\* a faulty purge: it empties the log of every chat
clearChatHistoryEvery(chs, chatId) == [c \in DOMAIN chs |-> << >>]

clearChatHistoryLocal(chs, chatId) == [chs EXCEPT ![chatId] = << >>]

getFullChatHistoryLocal(chs, chatId) == chs[chatId]

getUserMessagesInChatLocal(chs, chatId, userId) ==
    SelectSeq(chs[chatId], LAMBDA m : m.sender = "user" /\ m.userId = userId)

\* getChatsByUserLocal: the chats whose log holds a user message of userId
getChatsByUserLocal(chs, userId) ==
    {c \in DOMAIN chs : \E i \in 1..Len(chs[c]) :
                            chs[c][i].sender = "user" /\ chs[c][i].userId = userId}

\* PostgresDatabaseAdapter.getChatsByUser: FROM chats c LEFT JOIN messages m
\* ... WHERE c.user_id = $1 GROUP BY c.id
getChatsByUserPostgres(meta, chs, userId) ==
    {c \in DOMAIN meta : meta[c].exists /\ meta[c].userId = userId}

\* ORDER BY timestamp ASC: the rows in any order that does not put a later
\* timestamp before an earlier one
OrderByTimestamp(msgs) ==
    {r \in {[i \in 1..Len(msgs) |-> msgs[p[i]]] : p \in Permutations(1..Len(msgs))} :
        \A i, j \in 1..Len(msgs) : i < j => ~Before(r[j].timestamp, r[i].timestamp)}

\* PostgresDatabaseAdapter.getChatHistory / getFullChatHistory: the possible results
getChatHistoryPostgres(chs, chatId) == OrderByTimestamp(chs[chatId])

\* PostgresDatabaseAdapter.getUserMessagesInChat: the possible results
getUserMessagesInChatPostgres(chs, chatId, userId) ==
    OrderByTimestamp(SelectSeq(chs[chatId],
                               LAMBDA m : m.sender = "user" /\ m.userId = userId))

(***************************************************************************)
(* Session Registry state (services/sessionManager.ts)                     *)
(***************************************************************************)
NoSession == 0
NoQueue == [present |-> FALSE, items |-> << >>]
EmptyQueue == [present |-> TRUE, items |-> << >>]

\* chatSessions is a JS object: its entries keep the order of insertion
IndexOf(cs, chatId) ==
    IF \E i \in 1..Len(cs) : cs[i].chatId = chatId
      THEN CHOOSE i \in 1..Len(cs) : cs[i].chatId = chatId
      ELSE 0

\* a faulty lookup: it finds no session
hasSessionNever(cs, chatId) == FALSE

hasSession(cs, chatId) == IndexOf(cs, chatId) # 0

getSession(cs, chatId) ==
    IF hasSession(cs, chatId) THEN cs[IndexOf(cs, chatId)].session ELSE NoSession

\* chatSessions[chatId] = session
setSession(cs, chatId, session) ==
    IF hasSession(cs, chatId)
      THEN [cs EXCEPT ![IndexOf(cs, chatId)].session = session]
      ELSE Append(cs, [chatId |-> chatId, session |-> session])

\* a faulty removal: it empties the session map
deleteSessionEvery(cs, chatId) == << >>

\* delete chatSessions[chatId]
deleteSession(cs, chatId) == SelectSeq(cs, LAMBDA e : e.chatId # chatId)

\* new OpenAIClient(entryId, catalogId, listeners, elviraClient, userId); the
\* listeners are closures over the chatId and userId of the createSession call
\* the API key a user presents; getCurrentUserInfo maps it back to the user
ApiKeyOf(userId) == IF userId = "u1" THEN "k1" ELSE "k2"

\* new ElviraClient(apiKey, catalogId): `this.catalogId = catalogId || ''`
ElviraClient(apiKey, catalogId) ==
    [apiKey |-> apiKey,
     catalogId |-> IF catalogId \in {"null", "undefined"} THEN "" ELSE catalogId]

OpenAIClient(chatId, entryId, catalogId, userId) ==
    [chatId |-> chatId, userId |-> userId, entryId |-> entryId, catalogId |-> catalogId,
     chatHistory |-> << >>, lastTokensUsed |-> 0,
     elviraClient |-> ElviraClient(ApiKeyOf(userId), catalogId)]

\* OpenAIClient.getSystemPrompt: the parts of the instructions that vary,
\* `Assistant Entry ID: ${this.entryId}` and
\* `Catalog ID: ${this.catalogId ?? "N/A - no entry context"}`
getSystemPrompt(session) ==
    [entryId |-> session.entryId,
     catalogId |-> IF session.catalogId \in {"null", "undefined"} THEN "N/A"
                   ELSE session.catalogId]

NoInstructions == [entryId |-> "none", catalogId |-> "none"]
NoFocus == [entryId |-> "undefined", catalogId |-> "undefined"]

\* ids of the chats whose registered session belongs to userId
getUserSessionIds(cs, ss, userId) ==
    {cs[i].chatId : i \in {j \in 1..Len(cs) : ss[cs[j].session].userId = userId}}

(***************************************************************************)
(* Listeners of a session (sessionManager.ts, createSession).  A listener  *)
(* works on w = [messagesQueues, chats, chatsMetadata, nextMessageId,      *)
(* threw]; w.threw records that it raised an exception.  w.persists tells  *)
(* whether the store accepts writes during the call and w.lost counts the  *)
(* messages it did not accept.                                             *)
(***************************************************************************)
World ==
    [messagesQueues |-> messagesQueues, chats |-> chats, chatsMetadata |-> chatsMetadata,
     nextMessageId |-> nextMessageId, threw |-> FALSE, now |-> clock,
     persists |-> TRUE, lost |-> 0]

Event(type, data, msgId, bookIds, bookCatalogs) ==
    [type |-> type, data |-> data, msg_id |-> msgId, bookIds |-> bookIds,
     bookCatalogs |-> bookCatalogs]

\* a faulty logMessage: the failure of the store is thrown to the caller
logMessageThrows(w, chatId, sender, text, msgId, bookIds, bookCatalogs, userId) ==
    IF w.persists
      THEN logMessageLocal(w, chatId, sender, text, msgId, bookIds, bookCatalogs, userId)
      ELSE [w EXCEPT !.threw = TRUE, !.lost = @ + 1]

\* logMessage(...).catch(...) as the listeners call it: a failure of the store
\* is logged to the console, nothing is stored and nothing is thrown
logMessage(w, chatId, sender, text, msgId, bookIds, bookCatalogs, userId) ==
    IF w.persists
      THEN logMessageLocal(w, chatId, sender, text, msgId, bookIds, bookCatalogs, userId)
      ELSE [w EXCEPT !.lost = @ + 1]

\* messagesQueues[chatId].push(item): a TypeError when the queue was deleted
Push(w, chatId, item) ==
    IF w.messagesQueues[chatId].present
      THEN [w EXCEPT !.messagesQueues[chatId].items = Append(@, item)]
      ELSE [w EXCEPT !.threw = TRUE]

messageListener(w, chatId, userId, message, msgId) ==
    LET pushed == Push(w, chatId, Event("message", message, NoMsgId,
                                        Undefined(<< >>), Undefined({})))
    IN  IF pushed.threw THEN pushed
        ELSE logMessage(pushed, chatId, "agent", message, msgId,
                        Undefined(<< >>), Undefined({}), userId)

chunkListener(w, chatId, msgId, chunk) ==
    Push(w, chatId, Event("chunk", chunk, msgId, Undefined(<< >>), Undefined({})))

\* bookIds.length throws when the call passed no id list
displayBooksListener(w, chatId, userId, bookIds, bookCatalogs) ==
    LET pushed == Push(w, chatId, Event("entries", << >>, NoMsgId, bookIds, bookCatalogs))
        catalogInfo == IF bookCatalogs.def THEN bookCatalogs.v ELSE {}
    IN  IF pushed.threw THEN pushed
        ELSE IF ~bookIds.def THEN [pushed EXCEPT !.threw = TRUE]
        ELSE logMessage(pushed, chatId, "agent",
                        Displayed(bookIds.v) \o BookCatalogs(catalogInfo), NoMsgId,
                        bookIds, bookCatalogs, userId)

(***************************************************************************)
(* Replay of the persisted log (sessionManager.ts,                         *)
(* loadChatHistoryIntoSession)                                             *)
(***************************************************************************)
\* A stored message's id is the uuid drawn for it: groups of hex digits of
\* fixed width, joined by dashes (here the n-th uuid has two decimal digits).
uuidv4(n) == <<n \div 10, n % 10>>

\* msg.id.replace(/-/g, ''): the digits of the groups, one after the other
StripDashes(uuid) == uuid[1] * 10 + uuid[2]

\* a faulty choice of id: the stored msg_id as it is
ReplayIdAsStored(msg) == msg.msg_id

\* the id given to a replayed assistant turn
ReplayId(msg) ==
    IF msg.msg_id.form = "msg_" THEN msg.msg_id
    ELSE [form |-> "msg_", src |-> "uuid", n |-> StripDashes(uuidv4(msg.id))]

HasBooks(msg) == msg.bookIds.def /\ Len(msg.bookIds.v) > 0

\* the text given to a replayed assistant turn
ReplayText(msg) ==
    IF HasBooks(msg) /\ msg.bookCatalogs.def /\ ~Includes(msg.text, "catalogs")
      THEN IF Includes(msg.text, "displayed")
             THEN msg.text \o BookCatalogs(msg.bookCatalogs.v)
             ELSE msg.text \o Displayed(msg.bookIds.v) \o BookCatalogs(msg.bookCatalogs.v)
      ELSE msg.text

\* a faulty replay: it leaves out the agent messages that displayed books
ReplayTurnsWithoutDisplays(msg) ==
    IF msg.sender = "user" THEN << UserTurn(msg.text) >>
    ELSE IF msg.sender = "agent" /\ ~HasBooks(msg)
      THEN << AssistantTurn(ReplayId(msg), ReplayText(msg)) >>
    ELSE << >>

\* the turns pushed to the transcript for one persisted message
ReplayTurns(msg) ==
    IF msg.sender = "user" THEN << UserTurn(msg.text) >>
    ELSE IF msg.sender = "agent" THEN << AssistantTurn(ReplayId(msg), ReplayText(msg)) >>
    ELSE << >>

\* the loop over the messages; an exception (w.threw) leaves it
RECURSIVE loadChatHistory(_, _, _, _)
loadChatHistory(messages, chatId, chatHistory, w) ==
    IF messages = << >> \/ w.threw THEN [chatHistory |-> chatHistory, w |-> w]
    ELSE LET msg == Head(messages)
             pushed == IF msg.sender = "agent" /\ HasBooks(msg)
                         THEN Push(w, chatId, Event("entries", << >>, NoMsgId,
                                                    msg.bookIds, msg.bookCatalogs))
                         ELSE w
         IN  loadChatHistory(Tail(messages), chatId, chatHistory \o ReplayTurns(msg), pushed)

(***************************************************************************)
(* The API key of a request (extractApiKey and the auth middleware)        *)
(***************************************************************************)
\* A value of a request header, query parameter or body field: undefined, a
\* string, or something that is no string (a repeated query parameter, a JSON
\* array).  A string is the sequence of the pieces that split(' ') gives:
\* "Bearer k1" is <<"Bearer", "k1">>, "Bearer  k1" with two spaces is
\* <<"Bearer", "", "k1">>, the empty string is <<"">>.
NoValue == [kind |-> "undefined", words |-> << >>]
Str(words) == [kind |-> "string", words |-> words]
NotAString == [kind |-> "array", words |-> << >>]

NoKey == Undefined(<< >>)

\* the request as extractApiKey reads it
HttpRequest(authorization, xApiKey, queryApiKey, bodyApiKey) ==
    [authorization |-> authorization, xApiKey |-> xApiKey, queryApiKey |-> queryApiKey,
     bodyApiKey |-> bodyApiKey]

NoHttpRequest == HttpRequest(NoValue, NoValue, NoValue, NoValue)

\* String.prototype.toLowerCase on the scheme of a header
toLowerCase(word) == IF word \in {"Bearer", "BEARER", "bearer"} THEN "bearer" ELSE word

\* JavaScript truthiness of `value && typeof value === 'string'`
TruthyString(value) == value.kind = "string" /\ value.words # <<"">>

\* authHeader.toLowerCase().startsWith('bearer ')
StartsWithBearer(value) ==
    /\ Len(value.words) >= 2
    /\ toLowerCase(value.words[1]) = "bearer"

\* a faulty extraction: the x-api-key header is looked at first
extractApiKeyHeaderFirst(req) ==
    IF TruthyString(req.xApiKey) THEN Some(req.xApiKey.words)
    ELSE IF TruthyString(req.authorization) /\ StartsWithBearer(req.authorization)
      THEN Some(<<req.authorization.words[2]>>)
    ELSE IF TruthyString(req.queryApiKey) THEN Some(req.queryApiKey.words)
    ELSE IF TruthyString(req.bodyApiKey) THEN Some(req.bodyApiKey.words)
    ELSE NoKey

\* extractApiKey: the bearer token is `authHeader.split(' ')[1]`
extractApiKey(req) ==
    IF TruthyString(req.authorization) /\ StartsWithBearer(req.authorization)
      THEN Some(<<req.authorization.words[2]>>)
    ELSE IF TruthyString(req.xApiKey) THEN Some(req.xApiKey.words)
    ELSE IF TruthyString(req.queryApiKey) THEN Some(req.queryApiKey.words)
    ELSE IF TruthyString(req.bodyApiKey) THEN Some(req.bodyApiKey.words)
    ELSE NoKey

\* `!apiKey`: undefined or the empty string
NoApiKey(key) == ~key.def \/ key.v = <<"">>

(***************************************************************************)
(* User records (database/localStore.ts, PostgresDatabaseAdapter)          *)
(***************************************************************************)
NoUser ==
    [exists |-> FALSE, name |-> "none", blocked |-> FALSE, createdAt |-> NoTime,
     lastSeenAt |-> NoTime]

\* a user that was verified once, at the start of day 0
StoredUser ==
    [exists |-> TRUE, name |-> "n1", blocked |-> FALSE,
     createdAt |-> [day |-> 0, hour |-> 0], lastSeenAt |-> [day |-> 0, hour |-> 0]]

\* the User the identity service returns; blocked and createdAt are optional
User(id, name, blocked, createdAt) ==
    [id |-> id, name |-> name, blocked |-> blocked, createdAt |-> createdAt]

\* a faulty initUser: the spread of the verified user is stored as it is
initUserLocalSpreads(us, user, now) ==
    [us EXCEPT ![user.id] =
        [exists |-> TRUE, name |-> user.name,
         blocked |-> user.blocked.def /\ user.blocked.v,
         createdAt |-> IF user.createdAt.def THEN user.createdAt.v ELSE now,
         lastSeenAt |-> now]]

\* initUserLocal: an existing user keeps blocked and createdAt, a new one
\* starts unblocked and created now
initUserLocal(us, user, now) ==
    IF us[user.id].exists
      THEN [us EXCEPT ![user.id] =
               [exists |-> TRUE, name |-> user.name, blocked |-> us[user.id].blocked,
                createdAt |-> us[user.id].createdAt, lastSeenAt |-> now]]
      ELSE [us EXCEPT ![user.id] =
               [exists |-> TRUE, name |-> user.name, blocked |-> FALSE,
                createdAt |-> now, lastSeenAt |-> now]]

\* PostgresDatabaseAdapter.initUser: INSERT (..., blocked = user.blocked || false,
\* created_at = user.createdAt || now, ...) ON CONFLICT (id) DO UPDATE SET the
\* profile columns and last_seen_at
initUserPostgres(us, user, now) ==
    IF us[user.id].exists
      THEN [us EXCEPT ![user.id].name = user.name, ![user.id].lastSeenAt = now]
      ELSE [us EXCEPT ![user.id] =
               [exists |-> TRUE, name |-> user.name,
                blocked |-> user.blocked.def /\ user.blocked.v,
                createdAt |-> IF user.createdAt.def THEN user.createdAt.v ELSE now,
                lastSeenAt |-> now]]

(***************************************************************************)
(* Registry operations, one step per stretch of code between two awaits    *)
(***************************************************************************)
IdleHandler ==
    [op |-> "idle", pc |-> "idle", chatId |-> "none", userId |-> "none",
     entryId |-> "null", catalogId |-> "null", session |-> NoSession,
     loadHistory |-> FALSE, messages |-> << >>, entries |-> << >>, live |-> {},
     items |-> << >>, usage |-> 0, cursor |-> 0, stack |-> << >>, output |-> << >>,
     request |-> 0, sent |-> << >>, error |-> "none",
     title |-> "undefined", chat |-> NoChatRecord, catalog |-> << >>,
     readIndex |-> 0, written |-> << >>, emitted |-> << >>,
     status |-> 0, apiKey |-> "none", chatIds |-> {}, lost |-> 0,
     query |-> NoQuery, weight |-> 0, used |-> 0, charged |-> 0, admitted |-> FALSE,
     focus |-> NoFocus, instructions |-> NoInstructions,
     req |-> NoHttpRequest, key |-> NoKey, reported |-> 0]

Busy(chatId) == \E g \in Handlers : handlers[g].chatId = chatId

\* POST /startchat: a fresh chat id, the blocked check, then createSession up to
\* its `await createChat(chatId, userId)`
StartChat(h, chatId, userId, entryId, catalogId) ==
    /\ handlers[h].pc = "idle"
    /\ ~chatsMetadata[chatId].exists
    /\ ~Busy(chatId)
    /\ ~users[userId].blocked
    /\ chatsMetadata' = createChatLocal(chatsMetadata, chatId, userId, "undefined", clock)
    /\ handlers' = [handlers EXCEPT ![h] =
           [IdleHandler EXCEPT !.op = "create", !.pc = "created", !.chatId = chatId,
                               !.userId = userId, !.entryId = entryId,
                               !.catalogId = catalogId]]
    /\ UNCHANGED <<users, chats, nextMessageId, sessions, chatSessions, messagesQueues,
                   nRequests>>
    /\ UNCHANGED quotaVars

\* a faulty check: nobody is refused
StartchatStatusOpen(userId) == 200

\* the HTTP status decided by the checks of POST /startchat for the user the
\* key belongs to (apiKey and catalogId are present in the request):
\* getUser(user.id) after initUser(user), which keeps the blocked flag
StartchatStatus(userId) == IF users[userId].blocked THEN 403 ELSE 200

\* POST /startchat as a whole: 403 and return for a blocked user, otherwise a
\* fresh chat id and createSession up to its `await createChat(chatId, userId)`
Startchat(h, chatId, userId, entryId, catalogId) ==
    LET status == StartchatStatus(userId)
    IN  /\ handlers[h].pc = "idle"
        /\ ~chatsMetadata[chatId].exists
        /\ ~Busy(chatId)
        /\ IF status # 200
             THEN /\ handlers' = [handlers EXCEPT ![h] =
                         [IdleHandler EXCEPT !.op = "startchat", !.pc = "answering",
                                             !.userId = userId, !.status = status]]
                  /\ UNCHANGED chatsMetadata
             ELSE /\ chatsMetadata' = createChatLocal(chatsMetadata, chatId, userId,
                                                      "undefined", clock)
                  /\ handlers' = [handlers EXCEPT ![h] =
                         [IdleHandler EXCEPT !.op = "startchat", !.pc = "created",
                                             !.chatId = chatId, !.userId = userId,
                                             !.entryId = entryId, !.catalogId = catalogId,
                                             !.status = status]]
        /\ UNCHANGED <<users, chats, nextMessageId, sessions, chatSessions, messagesQueues,
                       nRequests>>
        /\ UNCHANGED quotaVars

\* resumeSession: the live session if there is one, else createSession with
\* loadHistory up to its `await createChat(chatId, userId)`.  As for startchat,
\* the caller has refused a blocked user; the chat is one that was persisted.
ResumeSession(h, chatId, userId, entryId, catalogId) ==
    /\ handlers[h].pc = "idle"
    /\ chatsMetadata[chatId].exists
    /\ ~users[userId].blocked
    /\ IF hasSession(chatSessions, chatId)
         THEN handlers' = [handlers EXCEPT ![h] =
                  [IdleHandler EXCEPT !.op = "resume", !.pc = "resumed", !.chatId = chatId,
                                      !.userId = userId, !.entryId = entryId,
                                      !.catalogId = catalogId,
                                      !.session = getSession(chatSessions, chatId)]]
         ELSE handlers' = [handlers EXCEPT ![h] =
                  [IdleHandler EXCEPT !.op = "resume", !.pc = "created", !.chatId = chatId,
                                      !.userId = userId, !.entryId = entryId,
                                      !.catalogId = catalogId, !.loadHistory = TRUE]]
    /\ chatsMetadata' = IF hasSession(chatSessions, chatId) THEN chatsMetadata
                        ELSE createChatLocal(chatsMetadata, chatId, userId, "undefined",
                                             clock)
    /\ UNCHANGED <<users, chats, nextMessageId, sessions, chatSessions, messagesQueues,
                   nRequests>>
    /\ UNCHANGED quotaVars

\* createSession after createChat: the queue, the listeners, the orchestrator;
\* then either the call of getFullChatHistory or the registration
CreateSession(h) ==
    LET me == handlers[h]
        id == Len(sessions) + 1
    IN  /\ me.pc = "created"
        /\ Len(sessions) < MaxSessions
        /\ messagesQueues' = [messagesQueues EXCEPT ![me.chatId] = EmptyQueue]
        /\ sessions' = Append(sessions, OpenAIClient(me.chatId, me.entryId, me.catalogId,
                                                     me.userId))
        /\ IF me.loadHistory
             THEN /\ handlers' = [handlers EXCEPT ![h].pc = "loading", ![h].session = id,
                                      ![h].messages = getFullChatHistoryLocal(chats, me.chatId)]
                  /\ UNCHANGED chatSessions
             ELSE /\ handlers' = [handlers EXCEPT ![h].pc = "started", ![h].session = id]
                  /\ chatSessions' = setSession(chatSessions, me.chatId, id)
        /\ UNCHANGED <<storeVars, nRequests>>
        /\ UNCHANGED quotaVars

\* loadChatHistoryIntoSession after getFullChatHistory: the replay loop
LoadChatHistoryIntoSession(h) ==
    LET me == handlers[h]
        r == loadChatHistory(me.messages, me.chatId, sessions[me.session].chatHistory, World)
    IN  /\ me.pc = "loading"
        /\ sessions' = [sessions EXCEPT ![me.session].chatHistory = r.chatHistory]
        /\ messagesQueues' = r.w.messagesQueues
        /\ handlers' = IF r.w.threw
                         THEN [handlers EXCEPT ![h].pc = "failed", ![h].error = "replay"]
                         ELSE [handlers EXCEPT ![h].pc = "loaded"]
        /\ UNCHANGED <<storeVars, chatSessions, nRequests>>
        /\ UNCHANGED quotaVars

\* createSession after loadChatHistoryIntoSession: chatSessions[chatId] = session
RegisterSession(h) ==
    LET me == handlers[h]
    IN  /\ me.pc = "loaded"
        /\ chatSessions' = setSession(chatSessions, me.chatId, me.session)
        /\ handlers' = [handlers EXCEPT ![h].pc = "resumed"]
        /\ UNCHANGED <<storeVars, sessions, messagesQueues, nRequests>>
        /\ UNCHANGED quotaVars

\* removeSession up to its `await clearChatHistory(chatId)`
RemoveSession(h, chatId) ==
    /\ handlers[h].pc = "idle"
    /\ chatsMetadata[chatId].exists
    /\ chatSessions' = deleteSession(chatSessions, chatId)
    /\ messagesQueues' = [messagesQueues EXCEPT ![chatId] = NoQueue]
    /\ chats' = clearChatHistoryLocal(chats, chatId)
    /\ handlers' = [handlers EXCEPT ![h] =
           [IdleHandler EXCEPT !.op = "remove", !.pc = "removing", !.chatId = chatId]]
    /\ UNCHANGED <<users, chatsMetadata, nextMessageId, sessions, nRequests>>
    /\ UNCHANGED quotaVars

\* POST /admin/users/block up to its `await setUserBlocked(userId, blocked)`
BlockUser(h, userId, blocked) ==
    /\ handlers[h].pc = "idle"
    /\ users' = IF users[userId].exists THEN [users EXCEPT ![userId].blocked = blocked]
                ELSE users
    /\ handlers' = [handlers EXCEPT ![h] =
           [IdleHandler EXCEPT !.op = "block", !.userId = userId,
                               !.status = IF users[userId].exists THEN 200 ELSE 404,
                               !.pc = IF blocked /\ users[userId].exists THEN "blocking"
                                      ELSE "answering"]]
    /\ UNCHANGED <<chatsMetadata, chats, nextMessageId, sessions, chatSessions,
                   messagesQueues, nRequests>>
    /\ UNCHANGED quotaVars

\* initUser(user) of the configured adapter, as run for every verified contact
InitUser(h, user) ==
    /\ handlers[h].pc = "idle"
    /\ users' = IF storageType = "local" THEN initUserLocal(users, user, clock)
                ELSE initUserPostgres(users, user, clock)
    /\ handlers' = [handlers EXCEPT ![h] =
           [IdleHandler EXCEPT !.op = "initUser", !.pc = "answering",
                               !.userId = user.id]]
    /\ UNCHANGED <<chatsMetadata, chats, nextMessageId, sessions, chatSessions,
                   messagesQueues, nRequests>>
    /\ UNCHANGED quotaVars

\* a faulty selection: the sessions of every user
EveryEntry(cs, ss, userId) == cs

\* the entries of chatSessions whose session belongs to userId, in order
OwnedEntries(cs, ss, userId) == SelectSeq(cs, LAMBDA e : ss[e.session].userId = userId)

\* the loop of terminateUserSessions from `entries` on, up to the next
\* `await removeSession(chatId)` or to its return
TerminateLoop(h, entries) ==
    IF entries = << >>
      THEN /\ handlers' = [handlers EXCEPT ![h].pc = "terminated", ![h].entries = << >>,
                  ![h].live = getUserSessionIds(chatSessions, sessions, handlers[h].userId)]
           /\ UNCHANGED <<chatSessions, messagesQueues, chats>>
      ELSE /\ chatSessions' = deleteSession(chatSessions, Head(entries).chatId)
           /\ messagesQueues' = [messagesQueues EXCEPT ![Head(entries).chatId] = NoQueue]
           /\ chats' = clearChatHistoryLocal(chats, Head(entries).chatId)
           /\ handlers' = [handlers EXCEPT ![h].pc = "terminating",
                                           ![h].entries = Tail(entries)]

\* terminateUserSessions: Object.entries(chatSessions) is taken once, here
TerminateUserSessions(h) ==
    /\ handlers[h].pc = "blocking"
    /\ TerminateLoop(h, OwnedEntries(chatSessions, sessions, handlers[h].userId))
    /\ UNCHANGED <<users, chatsMetadata, nextMessageId, sessions, nRequests>>
    /\ UNCHANGED quotaVars

\* terminateUserSessions after an `await removeSession(chatId)`
TerminateNext(h) ==
    /\ handlers[h].pc = "terminating"
    /\ TerminateLoop(h, handlers[h].entries)
    /\ UNCHANGED <<users, chatsMetadata, nextMessageId, sessions, nRequests>>
    /\ UNCHANGED quotaVars

\* the handler answers its request (or removeSession returns)
Return(h) ==
    /\ handlers[h].pc \in {"started", "resumed", "removing", "answering", "terminated",
                           "completed", "failed", "ended"}
    /\ handlers' = [handlers EXCEPT ![h] = IdleHandler]
    /\ UNCHANGED <<storeVars, sessions, chatSessions, messagesQueues, nRequests>>
    /\ UNCHANGED quotaVars

\* adminAuth / validateApiKey up to `await elviraClient.getCurrentUserInfo()`:
\* 401 when extractApiKey gave no key
Authenticate(h, req) ==
    /\ handlers[h].pc = "idle"
    /\ handlers' = [handlers EXCEPT ![h] =
           [IdleHandler EXCEPT !.op = "auth", !.pc = "answering", !.req = req,
                               !.key = extractApiKey(req),
                               !.status = IF NoApiKey(extractApiKey(req)) THEN 401
                                          ELSE 0]]
    /\ UNCHANGED <<storeVars, sessions, chatSessions, messagesQueues, nRequests>>
    /\ UNCHANGED quotaVars

(***************************************************************************)
(* Storage Port calls made on their own (database/accounts.ts)             *)
(***************************************************************************)
Titles == {"undefined", "t1"}

\* createChat(chatId, userId, title) of the configured adapter
CreateChat(h, chatId, userId, title) ==
    /\ handlers[h].pc = "idle"
    /\ chatsMetadata' =
          IF storageType = "local"
            THEN createChatLocal(chatsMetadata, chatId, userId, title, clock)
            ELSE createChatPostgres(chatsMetadata, chatId, userId, title, clock)
    /\ handlers' = [handlers EXCEPT ![h] =
           [IdleHandler EXCEPT !.op = "createChat", !.pc = "answering", !.chatId = chatId,
                               !.userId = userId, !.title = title,
                               !.chat = ChatRecord(chatsMetadata', chatId)]]
    /\ UNCHANGED <<users, chats, nextMessageId, sessions, chatSessions, messagesQueues,
                   nRequests>>
    /\ UNCHANGED quotaVars

\* logMessage(chatId, 'user', text, {userId}) on a chat that was created
LogMessage(h, chatId, userId) ==
    /\ handlers[h].pc = "idle"
    /\ chatsMetadata[chatId].exists
    /\ Len(chats[chatId]) < MaxLogLen
    /\ LET w == logMessageLocal(World, chatId, "user", Plain("hello"), NoMsgId,
                                Undefined(<< >>), Undefined({}), userId)
       IN  /\ chats' = w.chats
           /\ chatsMetadata' = IF storageType = "local" THEN w.chatsMetadata
                               ELSE update_chat_statistics(chatsMetadata, chatId, 1)
           /\ nextMessageId' = w.nextMessageId
    /\ handlers' = [handlers EXCEPT ![h] =
           [IdleHandler EXCEPT !.op = "logMessage", !.pc = "answering", !.chatId = chatId,
                               !.userId = userId]]
    /\ UNCHANGED <<users, sessions, chatSessions, messagesQueues, nRequests>>
    /\ UNCHANGED quotaVars

\* recordMessageUsage(userId, query, 0) called for a request; the handler keeps
\* the weight of the query, the usage it found and what the call added to it
ChargeQuery(h, userId, query) ==
    LET res == recordMessageUsage(dailyLimits, rows, userId, query, 0)
        before == StoredUsage(dailyLimits, rows, userId, getTodayDate).messages
        after == StoredUsage(res.dailyLimits, res.rows, userId, getTodayDate).messages
    IN  /\ handlers[h].pc = "idle"
        /\ Len(res.rows) <= MaxRows
        /\ rows' = res.rows
        /\ dailyLimits' = res.dailyLimits
        /\ handlers' = [handlers EXCEPT ![h] =
               [IdleHandler EXCEPT !.op = "record", !.pc = "answering", !.userId = userId,
                                   !.query = query,
                                   !.weight = calculateQueryWeight(query),
                                   !.used = before, !.charged = after - before,
                                   !.admitted = res.admitted]]
        /\ UNCHANGED <<storeVars, sessions, chatSessions, messagesQueues, nRequests>>
        /\ UNCHANGED <<storageType, resetHour, clock, procs, lastCall, lastCheck,
                       exhaustedAt, lastSweep, tally>>

\* clearChatHistory(chatId) of the configured adapter
ClearChatHistory(h, chatId) ==
    /\ handlers[h].pc = "idle"
    /\ chats' = clearChatHistoryLocal(chats, chatId)
    /\ chatsMetadata' = IF storageType = "local" THEN chatsMetadata
                        ELSE update_chat_statistics(chatsMetadata, chatId,
                                                    0 - Len(chats[chatId]))
    /\ handlers' = [handlers EXCEPT ![h] =
           [IdleHandler EXCEPT !.op = "clearChatHistory", !.pc = "answering",
                               !.chatId = chatId]]
    /\ UNCHANGED <<users, nextMessageId, sessions, chatSessions, messagesQueues,
                   nRequests>>
    /\ UNCHANGED quotaVars

\* getChatsByUser(userId) of the configured adapter
GetChatsByUser(h, userId) ==
    /\ handlers[h].pc = "idle"
    /\ handlers' = [handlers EXCEPT ![h] =
           [IdleHandler EXCEPT !.op = "chatsByUser", !.pc = "answering", !.userId = userId,
                               !.chatIds = IF storageType = "local"
                                             THEN getChatsByUserLocal(chats, userId)
                                             ELSE getChatsByUserPostgres(chatsMetadata,
                                                                         chats, userId)]]
    /\ UNCHANGED <<storeVars, sessions, chatSessions, messagesQueues, nRequests>>
    /\ UNCHANGED quotaVars

\* getFullChatHistory(chatId) of the configured adapter
GetFullChatHistory(h, chatId) ==
    /\ handlers[h].pc = "idle"
    /\ \E result \in IF storageType = "local"
                       THEN {getFullChatHistoryLocal(chats, chatId)}
                       ELSE getChatHistoryPostgres(chats, chatId) :
          handlers' = [handlers EXCEPT ![h] =
              [IdleHandler EXCEPT !.op = "history", !.pc = "answering", !.chatId = chatId,
                                  !.messages = result]]
    /\ UNCHANGED <<storeVars, sessions, chatSessions, messagesQueues, nRequests>>
    /\ UNCHANGED quotaVars

\* getUserMessagesInChat(chatId, userId) of the configured adapter
GetUserMessagesInChat(h, chatId, userId) ==
    /\ handlers[h].pc = "idle"
    /\ \E result \in IF storageType = "local"
                       THEN {getUserMessagesInChatLocal(chats, chatId, userId)}
                       ELSE getUserMessagesInChatPostgres(chats, chatId, userId) :
          handlers' = [handlers EXCEPT ![h] =
              [IdleHandler EXCEPT !.op = "userMessages", !.pc = "answering",
                                  !.chatId = chatId, !.userId = userId,
                                  !.messages = result]]
    /\ UNCHANGED <<storeVars, sessions, chatSessions, messagesQueues, nRequests>>
    /\ UNCHANGED quotaVars

(***************************************************************************)
(* Conversation Orchestrator (openAIClient/openaiClient.ts) and the tool   *)
(* dispatch (openAIClient/functionHandler.ts)                              *)
(***************************************************************************)
UserMessages == {Plain("hello")}

DisplayArguments ==
    [NoArguments EXCEPT !.ids = Some(<<"b1", "b2">>),
                        !.books = Some({<<"b1", "cat1">>, <<"b2", "cat2">>})]
DetailArguments == [NoArguments EXCEPT !.id = "b1"]
MalformedArguments == [NoArguments EXCEPT !.parses = FALSE]

\* the provider's call ids are unique: n numbers the request, i the item
CallId(n, i) == 2 * n + i

\* what the completion service may answer to the n-th request
Responses(n) ==
    { [output |-> << Reasoning, AssistantTurn(ProviderId(n), Plain("answer")) >>,
       usage |-> 1],
      [output |-> << FunctionCall(CallId(n, 0), "displayBooks", DisplayArguments) >>,
       usage |-> 1],
      [output |-> << AssistantTurn(ProviderId(n), Plain("looking")),
                     FunctionCall(CallId(n, 0), "getEntries", NoArguments) >>,
       usage |-> 2],
      [output |-> << FunctionCall(CallId(n, 0), "getEntryDetails", DetailArguments),
                     FunctionCall(CallId(n, 1), "summarize", NoArguments) >>,
       usage |-> 0],
      [output |-> << FunctionCall(CallId(n, 0), "getEntryDetails", MalformedArguments) >>,
       usage |-> 1] }

\* the answers of the completion service that are a text or, a book display
TwoChatResponses(n) ==
    {x \in Responses(n) : \A i \in 1..Len(x.output) :
                              x.output[i].type = "function_call"
                                  => x.output[i].name = "displayBooks"}

\* no two chat() calls run on one session at a time (the transport layer holds
\* one request per chat)
Chatting(session) ==
    \E g \in Handlers : handlers[g].op = "chat" /\ handlers[g].session = session

\* the orders in which a sequence of rows may come to stand
Orderings(msgs) ==
    {[i \in 1..Len(msgs) |-> msgs[f[i]]] : f \in Permutations(1..Len(msgs))}

\* a faulty pool: the inserts are executed one after the other, as issued
PersistedInIssueOrder(type, before, after) == {after}

\* The logs after the logMessage calls of one synchronous stretch of code,
\* none of which is awaited.  The file-backed store appends inside the call.
\* The relational store sends each INSERT through pool.query, on whichever
\* connection is free, and the row's timestamp is the server's
\* CURRENT_TIMESTAMP when it executes it: the rows of the stretch come to stand
\* in the order of execution, which need not be the order of the calls.
PersistedLogs(type, before, after) ==
    LET Extended(c) == /\ Len(after[c]) >= Len(before[c])
                       /\ SubSeq(after[c], 1, Len(before[c])) = before[c]
        Choices(c) ==
            IF Extended(c)
              THEN {before[c] \o tail :
                       tail \in Orderings(SubSeq(after[c], Len(before[c]) + 1,
                                                 Len(after[c])))}
              ELSE {after[c]}
    IN  IF type = "local" THEN {after}
        ELSE {chs \in [Chats -> UNION {Choices(c) : c \in Chats}] :
                 \A c \in Chats : chs[c] \in Choices(c)}

SetWorld(w) ==
    /\ messagesQueues' = w.messagesQueues
    /\ chats' \in PersistedLogs(storageType, chats, w.chats)
    /\ chatsMetadata' = w.chatsMetadata
    /\ nextMessageId' = w.nextMessageId

getMessageQueueLength(chatId) ==
    IF messagesQueues[chatId].present THEN Len(messagesQueues[chatId].items) ELSE 0

\* the events a listener call has pushed: the items of the queue of w that the
\* queue did not hold before
Emitted(w, chatId) ==
    IF w.messagesQueues[chatId].present
      THEN SubSeq(w.messagesQueues[chatId].items, getMessageQueueLength(chatId) + 1,
                  Len(w.messagesQueues[chatId].items))
      ELSE << >>

\* hs with the events pushed by the listeners noted for the turn of handler h
Noting(hs, h, w, chatId) ==
    [hs EXCEPT ![h].emitted = @ \o Emitted(w, chatId), ![h].lost = @ + w.lost]

\* a faulty check: every key is accepted
validateApiKeyAny(client, providedKey) == TRUE

\* ElviraClient.validateApiKey
validateApiKey(client, providedKey) == client.apiKey = providedKey

\* the HTTP status decided by the checks of POST /sendchat (chatId, message
\* and apiKey are present in the request)
SendchatStatus(chatId, apiKey) ==
    LET session == getSession(chatSessions, chatId)
    IN  IF session = NoSession THEN 404
        ELSE IF users[sessions[session].userId].blocked THEN 403
        ELSE IF ~validateApiKey(sessions[session].elviraClient, apiKey) THEN 401
        ELSE 200

\* POST /sendchat: the session, blocked and key checks; then setEntryId,
\* logMessage of the user's message and chat() up to
\* `await this.openai.responses.create(...)`.  Of the request body the route
\* reads chatId, message, entryId and apiKey; a catalogId in it is not read.
\* `serial`: the client sends a request for the chat only when no turn of its
\* session is in flight (the route itself does not look at that).
SendchatWith(h, chatId, message, entryId, catalogId, apiKey, serial) ==
    LET session == getSession(chatSessions, chatId)
        status == SendchatStatus(chatId, apiKey)
    IN  /\ handlers[h].pc = "idle"
        /\ IF status # 200
             THEN /\ handlers' = [handlers EXCEPT ![h] =
                         [IdleHandler EXCEPT !.op = "sendchat", !.pc = "answering",
                                             !.chatId = chatId, !.status = status,
                                             !.apiKey = apiKey]]
                  /\ UNCHANGED <<storeVars, sessions, chatSessions, messagesQueues,
                                 nRequests>>
             ELSE /\ serial => ~Chatting(session)
                  /\ nRequests < MaxRequests
                  /\ SetWorld(logMessageLocal(World, chatId, "user", message, NoMsgId,
                                              Undefined(<< >>), Undefined({}),
                                              sessions[session].userId))
                  /\ sessions' = [sessions EXCEPT
                         ![session].entryId = IF entryId = "undefined" THEN @ ELSE entryId,
                         ![session].lastTokensUsed = 0,
                         ![session].chatHistory = Append(@, UserTurn(message))]
                  /\ nRequests' = nRequests + 1
                  /\ handlers' = [handlers EXCEPT ![h] =
                         [IdleHandler EXCEPT !.op = "chat", !.pc = "requested",
                                             !.chatId = chatId, !.session = session,
                                             !.request = nRequests + 1,
                                             !.sent = sessions'[session].chatHistory,
                                             !.readIndex = getMessageQueueLength(chatId),
                                             !.status = status, !.apiKey = apiKey,
                                             !.focus = [entryId |-> entryId,
                                                        catalogId |-> catalogId],
                                             !.instructions =
                                                 getSystemPrompt(sessions'[session])]]
                  /\ UNCHANGED <<users, chatSessions>>
        /\ UNCHANGED quotaVars

SendchatFocus(h, chatId, message, entryId, catalogId, apiKey) ==
    SendchatWith(h, chatId, message, entryId, catalogId, apiKey, TRUE)

Sendchat(h, chatId, message, entryId, apiKey) ==
    SendchatFocus(h, chatId, message, entryId, "undefined", apiKey)

\* a sendchat request that passes the checks: the session is live, its owner
\* is not blocked, the key is the session's, no entryId is given
Chat(h, chatId, message) ==
    LET session == getSession(chatSessions, chatId)
    IN  /\ session # NoSession
        /\ ~users[sessions[session].userId].blocked
        /\ Sendchat(h, chatId, message, "undefined", sessions[session].elviraClient.apiKey)

\* the completion service starts to stream its answer
StreamOpens(h, response) ==
    /\ handlers[h].pc = "requested"
    /\ handlers' = [handlers EXCEPT ![h].pc = "streaming", ![h].items = response.output,
                                    ![h].usage = response.usage, ![h].cursor = 1]
    /\ UNCHANGED <<storeVars, sessions, chatSessions, messagesQueues, nRequests>>
    /\ UNCHANGED quotaVars

\* the request or the stream fails: getResponse throws, nothing is appended
StreamFails(h) ==
    /\ handlers[h].pc \in {"requested", "streaming"}
    /\ handlers' = [handlers EXCEPT ![h].pc = "failed", ![h].error = "stream"]
    /\ UNCHANGED <<storeVars, sessions, chatSessions, messagesQueues, nRequests>>
    /\ UNCHANGED quotaVars

\* no function_call among the items: the functionCallStack stays empty
NoToolCalls(items) == \A i \in 1..Len(items) : items[i].type # "function_call"

MessagesFrom(items, from) == {i \in from..Len(items) : items[i].type = "message"}

\* a response.output_text.delta chunk of the next message item
StreamDelta(h) ==
    LET me == handlers[h]
        i == CHOOSE i \in MessagesFrom(me.items, me.cursor) :
                 \A j \in MessagesFrom(me.items, me.cursor) : i <= j
        w == chunkListener(World, sessions[me.session].chatId, me.items[i].id,
                           me.items[i].text)
    IN  /\ me.pc = "streaming"
        /\ MessagesFrom(me.items, me.cursor) # {}
        /\ SetWorld(w)
        /\ handlers' = Noting(IF w.threw
                                  THEN [handlers EXCEPT ![h].pc = "failed",
                                                        ![h].error = "listener"]
                                  ELSE [handlers EXCEPT ![h].cursor = i + 1],
                                h, w, sessions[me.session].chatId)
        /\ UNCHANGED <<users, sessions, chatSessions, nRequests>>
        /\ UNCHANGED quotaVars

\* getResponse, the loop over the items of the response: messageListener for
\* the message items until one throws
RECURSIVE NotifyMessages(_, _, _, _)
NotifyMessages(w, chatId, userId, items) ==
    IF items = << >> \/ w.threw THEN w
    ELSE NotifyMessages(IF Head(items).type = "message"
                          THEN messageListener(w, chatId, userId, Head(items).text,
                                               Head(items).id)
                          ELSE w,
                        chatId, userId, Tail(items))

\* response.completed and the rest of getResponse up to
\* `await handleFunctionCalls(...)` or to its return
\* `persists`: whether the store accepts the messages logged meanwhile
StreamCompletedWith(h, persists) ==
    LET me == handlers[h]
        session == sessions[me.session]
        w == NotifyMessages([World EXCEPT !.persists = persists], session.chatId,
                            session.userId, me.items)
        functionCallStack == SelectSeq(me.items, LAMBDA item : item.type = "function_call")
    IN  /\ me.pc = "streaming"
        /\ MessagesFrom(me.items, me.cursor) = {}
        /\ sessions' = [sessions EXCEPT
               ![me.session].lastTokensUsed = @ + me.usage,
               ![me.session].chatHistory = @ \o me.items]
        /\ SetWorld(w)
        /\ handlers' = Noting(
             IF w.threw
               THEN [handlers EXCEPT ![h].pc = "failed", ![h].error = "listener",
                                     ![h].reported = @ + me.usage]
             ELSE IF functionCallStack = << >>
               THEN [handlers EXCEPT ![h].pc = "completed", ![h].reported = @ + me.usage]
             ELSE [handlers EXCEPT ![h].pc = "tools", ![h].stack = functionCallStack,
                                   ![h].output = << >>, ![h].reported = @ + me.usage],
             h, w, session.chatId)
        /\ UNCHANGED <<users, chatSessions, nRequests>>
        /\ UNCHANGED quotaVars

StreamCompleted(h) == StreamCompletedWith(h, TRUE)

\* the result of one call of the switch in handleFunctionCalls; `thrown` when
\* the tool or the listener threw inside the try block
ToolOutput(thrown) ==
    IF thrown THEN [success |-> FALSE, error |-> "error.message"] ELSE NoOutput

\* A call of the catalog client: whether it throws and the request it sent to
\* the catalog service, if any; `fails` is the service's part.
NoRequest == [sent |-> FALSE, path |-> "none", catalogId |-> "", entryId |-> "undefined"]

getEntries(client, fails) ==
    [thrown |-> fails,
     request |-> [sent |-> TRUE, path |-> "entries", catalogId |-> client.catalogId,
                  entryId |-> "undefined"]]

\* the older ElviraClient.getEntryDetail: no check of the catalog id
getEntryDetailUnchecked(client, entryId, fails) ==
    IF entryId = "undefined" THEN [thrown |-> TRUE, request |-> NoRequest]
    ELSE [thrown |-> fails,
          request |-> [sent |-> TRUE, path |-> "entry", catalogId |-> client.catalogId,
                       entryId |-> entryId]]

getEntryDetail(client, entryId, fails) ==
    IF entryId = "undefined" THEN [thrown |-> TRUE, request |-> NoRequest]
    ELSE IF client.catalogId = "" THEN [thrown |-> TRUE, request |-> NoRequest]
    ELSE [thrown |-> fails,
          request |-> [sent |-> TRUE, path |-> "entry", catalogId |-> client.catalogId,
                       entryId |-> entryId]]

\* handleFunctionCalls, one turn of its loop: JSON.parse(item.arguments), the
\* switch on item.name, output.push(...)
HandleFunctionCallWith(h, catalogThrows, persists) ==
    LET me == handlers[h]
        session == sessions[me.session]
        item == me.stack[Len(me.output) + 1]
        w == IF item.name = "displayBooks"
               THEN displayBooksListener([World EXCEPT !.persists = persists],
                                         session.chatId, session.userId,
                                         item.arguments.ids, Undefined({}))
               ELSE World
        call == IF item.name = "getEntries"
                  THEN getEntries(session.elviraClient, catalogThrows)
                ELSE IF item.name = "getEntryDetails"
                  THEN getEntryDetail(session.elviraClient, item.arguments.id, catalogThrows)
                ELSE [thrown |-> FALSE, request |-> NoRequest]
        result == IF item.name = "displayBooks" THEN ToolOutput(w.threw)
                  ELSE IF item.name \in {"getEntries", "getEntryDetails"}
                    THEN ToolOutput(call.thrown)
                  ELSE [success |-> FALSE, error |-> "Unknown function call"]
    IN  /\ me.pc = "tools"
        /\ Len(me.output) < Len(me.stack)
        /\ IF ~item.arguments.parses
             THEN \* JSON.parse throws before the try block is entered
                  /\ handlers' = [handlers EXCEPT ![h].pc = "failed",
                                                  ![h].error = "arguments"]
                  /\ UNCHANGED <<messagesQueues, chats, chatsMetadata, nextMessageId>>
             ELSE /\ SetWorld(w)
                  /\ handlers' = Noting([handlers EXCEPT
                         ![h].output = Append(@, FunctionCallOutput(item.call_id, result)),
                         ![h].catalog = IF call.request.sent THEN Append(@, call.request)
                                        ELSE @], h, w, session.chatId)
        /\ UNCHANGED <<users, sessions, chatSessions, nRequests>>
        /\ UNCHANGED quotaVars

HandleFunctionCall(h, catalogThrows) == HandleFunctionCallWith(h, catalogThrows, TRUE)

\* a faulty loop: a depth limit of one tool round per transcript, after which
\* the turn ends without a further request
FunctionCallsHandledCapped(h) ==
    LET me == handlers[h]
        answered == \E i \in 1..Len(sessions[me.session].chatHistory) :
                       sessions[me.session].chatHistory[i].type = "function_call_output"
    IN  /\ me.pc = "tools"
        /\ Len(me.output) = Len(me.stack)
        /\ nRequests < MaxRequests
        /\ sessions' = [sessions EXCEPT ![me.session].chatHistory = @ \o me.output]
        /\ nRequests' = IF answered THEN nRequests ELSE nRequests + 1
        /\ handlers' = IF answered
                         THEN [handlers EXCEPT ![h].pc = "completed"]
                         ELSE [handlers EXCEPT ![h].pc = "requested",
                                               ![h].request = nRequests + 1,
                                               ![h].items = << >>, ![h].cursor = 0,
                                               ![h].sent = sessions'[me.session].chatHistory,
                                               ![h].instructions =
                                                   getSystemPrompt(sessions[me.session])]
        /\ UNCHANGED <<storeVars, chatSessions, messagesQueues>>
        /\ UNCHANGED quotaVars

\* getResponse after handleFunctionCalls: the outputs are appended and the next
\* completion request is issued
FunctionCallsHandled(h) ==
    LET me == handlers[h]
    IN  /\ me.pc = "tools"
        /\ Len(me.output) = Len(me.stack)
        /\ nRequests < MaxRequests
        /\ sessions' = [sessions EXCEPT ![me.session].chatHistory = @ \o me.output]
        /\ nRequests' = nRequests + 1
        /\ handlers' = [handlers EXCEPT ![h].pc = "requested",
                                        ![h].request = nRequests + 1,
                                        ![h].items = << >>, ![h].cursor = 0,
                                        ![h].sent = sessions'[me.session].chatHistory,
                                        ![h].instructions =
                                            getSystemPrompt(sessions[me.session])]
        /\ UNCHANGED <<storeVars, chatSessions, messagesQueues>>
        /\ UNCHANGED quotaVars

\* POST /sendchat, the streaming loop: one pass writes the items of the queue
\* from readIndex on; once chat() has settled and the queue is read, the
\* terminal event is written and the response ends
\* a faulty end of the stream: done is written whatever became of chat()
TerminalEventDone(type) == Event("done", << >>, NoMsgId, Undefined(<< >>), Undefined({}))

TerminalEvent(type) == Event(type, << >>, NoMsgId, Undefined(<< >>), Undefined({}))

StreamItems(h) ==
    LET me == handlers[h]
        finished == me.pc \in {"completed", "failed"}
        length == getMessageQueueLength(me.chatId)
        items == IF length > me.readIndex
                   THEN SubSeq(messagesQueues[me.chatId].items, me.readIndex + 1, length)
                   ELSE << >>
    IN  /\ me.op = "chat"
        /\ me.pc # "ended"
        /\ finished \/ length > me.readIndex
        /\ handlers' = [handlers EXCEPT
               ![h].written = IF finished
                                THEN @ \o items \o << TerminalEvent(IF me.pc = "failed"
                                                                      THEN "error"
                                                                      ELSE "done") >>
                                ELSE @ \o items,
               ![h].readIndex = IF length > @ THEN length ELSE @,
               ![h].pc = IF finished THEN "ended" ELSE @]
        /\ UNCHANGED <<storeVars, sessions, chatSessions, messagesQueues, nRequests>>
        /\ UNCHANGED quotaVars

\* nobody has contacted the service yet: no chat, no session, no handler running
RegistryAtRest ==
    /\ users = [u \in Users |-> StoredUser]
    /\ chatsMetadata = [c \in Chats |-> NoChat]
    /\ chats = [c \in Chats |-> << >>]
    /\ nextMessageId = 1
    /\ sessions = << >>
    /\ chatSessions = << >>
    /\ messagesQueues = [c \in Chats |-> NoQueue]
    /\ handlers = [h \in Handlers |-> IdleHandler]
    /\ nRequests = 0

\* no quota call has been made yet
QuotaAtRest ==
    /\ storageType = "local"
    /\ resetHour = 0
    /\ clock = [day |-> 0, hour |-> 0]
    /\ rows = << >>
    /\ dailyLimits = {}
    /\ procs = [p \in Callers |-> IdleCall]
    /\ lastCall = NoCall
    /\ lastCheck = NoCheck
    /\ exhaustedAt = [u \in QuotaUsers |-> NoTime]
    /\ lastSweep = NoTime
    /\ tally = [u \in QuotaUsers |-> FreshTally(0)]

(***************************************************************************)
(* The Quota Governor alone: calls that run to completion (SpecQuota) and  *)
(* calls of two callers that interleave at their awaits (SpecQuotaConc)    *)
(***************************************************************************)
QuotaInit ==
    /\ storageType = "local"
    /\ resetHour \in ResetHours
    /\ clock = [day |-> 0, hour |-> 0]
    /\ rows = << >>
    /\ dailyLimits = {}
    /\ procs = [p \in Callers |-> IdleCall]
    /\ lastCall = NoCall
    /\ lastCheck = NoCheck
    /\ exhaustedAt = [u \in QuotaUsers |-> NoTime]
    /\ lastSweep = NoTime
    /\ tally = [u \in QuotaUsers |-> FreshTally(0)]
    /\ RegistryAtRest

QuotaNext ==
    \/ \E u \in QuotaUsers, q \in Queries, t \in TokenInputs : RecordMessageUsage(u, q, t)
    \/ \E u \in QuotaUsers : CheckMessageQuota(u)
    \/ ResetExpiredDailyLimits
    \/ Tick

SpecQuota == QuotaInit /\ [][QuotaNext]_vars

QuotaConcInit ==
    /\ storageType \in StorageTypes
    /\ resetHour = 0
    /\ clock = [day |-> 0, hour |-> 0]
    /\ rows = << >>
    /\ dailyLimits = {}
    /\ procs = [p \in Callers |-> IdleCall]
    /\ lastCall = NoCall
    /\ lastCheck = NoCheck
    /\ exhaustedAt = [u \in QuotaUsers |-> NoTime]
    /\ lastSweep = NoTime
    /\ tally = [u \in QuotaUsers |-> FreshTally(0)]
    /\ RegistryAtRest

QuotaConcNext ==
    \/ \E p \in Callers, u \in QuotaUsers, q \in ConcQueries, t \in TokenInputs :
          CallStart(p, "record", u, q, t)
    \/ \E p \in Callers, u \in QuotaUsers :
          CallStart(p, "check", u, CHOOSE q \in ConcQueries : TRUE, 0)
    \/ \E p \in Callers : CallCreate(p)
    \/ \E p \in Callers : CheckReturn(p)
    \/ \E p \in Callers : RecordWeigh(p)
    \/ \E p \in Callers : RecordSettle(p)
    \/ ResetExpiredDailyLimits

SpecQuotaConc == QuotaConcInit /\ [][QuotaConcNext]_vars

(***************************************************************************)
(* The Session Registry: a client and the administrator                    *)
(***************************************************************************)
RegistryInit == QuotaAtRest /\ RegistryAtRest

\* h1 serves the requests of the clients, h2 those of the administrator
Clients == {"h1"}
Admins == {"h2"}

RegistryNext ==
    \/ \E h \in Clients, c \in Chats, u \in Users : StartChat(h, c, u, "null", "cat1")
    \/ \E h \in Clients, c \in Chats, u \in Users : ResumeSession(h, c, u, "null", "cat1")
    \/ \E h \in Handlers : CreateSession(h)
    \/ \E h \in Handlers : LoadChatHistoryIntoSession(h)
    \/ \E h \in Handlers : RegisterSession(h)
    \/ \E h \in Admins, c \in Chats : RemoveSession(h, c)
    \/ \E h \in Admins, u \in Users, b \in BOOLEAN : BlockUser(h, u, b)
    \/ \E h \in Handlers : TerminateUserSessions(h)
    \/ \E h \in Handlers : TerminateNext(h)
    \/ \E h \in Handlers : Return(h)

SpecRegistry == RegistryInit /\ [][RegistryNext]_vars

(***************************************************************************)
(* One conversation: user u1 starts chat c1 and sends messages to it while  *)
(* the administrator may remove the session or block a user.               *)
(***************************************************************************)
OrchestratorNext ==
    \/ \E h \in Clients, cat \in {"cat1", "null"} : StartChat(h, "c1", "u1", "null", cat)
    \/ \E h \in Clients : CreateSession(h)
    \/ \E h \in Clients, m \in UserMessages : Chat(h, "c1", m)
    \/ \E h \in Clients : \E r \in Responses(handlers[h].request) : StreamOpens(h, r)
    \/ \E h \in Clients : StreamFails(h)
    \/ \E h \in Clients : StreamDelta(h)
    \/ \E h \in Clients : StreamCompleted(h)
    \/ \E h \in Clients, t \in BOOLEAN : HandleFunctionCall(h, t)
    \/ \E h \in Clients : FunctionCallsHandled(h)
    \/ \E h \in Admins : RemoveSession(h, "c1")
    \/ \E h \in Admins : BlockUser(h, "u1", TRUE)
    \/ \E h \in Admins : TerminateUserSessions(h)
    \/ \E h \in Admins : TerminateNext(h)
    \/ \E h \in Handlers : Return(h)

SpecOrchestrator == RegistryInit /\ [][OrchestratorNext]_vars

\* the sendchat requests of one chat with their response streams, while an
\* administrator may remove the session
SendchatNext ==
    \/ \E h \in Clients : StartChat(h, "c1", "u1", "null", "cat1")
    \/ \E h \in Clients : CreateSession(h)
    \/ \E h \in Clients, m \in UserMessages : Chat(h, "c1", m)
    \/ \E h \in Clients : \E r \in Responses(handlers[h].request) : StreamOpens(h, r)
    \/ \E h \in Clients : StreamFails(h)
    \/ \E h \in Clients : StreamDelta(h)
    \/ \E h \in Clients : StreamCompleted(h)
    \/ \E h \in Clients, t \in BOOLEAN : HandleFunctionCall(h, t)
    \/ \E h \in Clients : FunctionCallsHandled(h)
    \/ \E h \in Clients : StreamItems(h)
    \/ \E h \in Admins : RemoveSession(h, "c1")
    \/ \E h \in Handlers : (handlers[h].op = "chat" => handlers[h].pc = "ended") /\ Return(h)

SpecSendchat == RegistryInit /\ [][SendchatNext]_vars

\* startchat requests of both users for either chat id while an administrator
\* blocks and unblocks them
StartchatNext ==
    \/ \E h \in Clients, c \in Chats, u \in Users : Startchat(h, c, u, "null", "cat1")
    \/ \E h \in Clients : CreateSession(h)
    \/ \E h \in Admins, u \in Users, b \in BOOLEAN : BlockUser(h, u, b)
    \/ \E h \in Admins : TerminateUserSessions(h)
    \/ \E h \in Admins : TerminateNext(h)
    \/ \E h \in Handlers : Return(h)

SpecStartchat == RegistryInit /\ [][StartchatNext]_vars

\* requests that carry their key in any of the four places
AuthorizationValues ==
    {NoValue, Str(<<"Bearer", "k1">>), Str(<<"bearer", "k2">>), Str(<<"Bearer", "", "k1">>),
     Str(<<"Basic", "k1">>), Str(<<"Bearer">>)}
HeaderKeyValues == {NoValue, Str(<<"k1">>), Str(<<"k2">>), Str(<<"">>)}
FieldKeyValues == HeaderKeyValues \cup {NotAString}

AuthNext ==
    \/ \E h \in Clients, a \in AuthorizationValues, x \in HeaderKeyValues,
          q \in FieldKeyValues, b \in FieldKeyValues :
          Authenticate(h, HttpRequest(a, x, q, b))
    \/ \E h \in Clients : Return(h)

SpecAuth == RegistryInit /\ [][AuthNext]_vars

\* the turns of one chat under a completion service that answers every
\* request, in the end with a response that has no tool call (here: at the
\* latest for request MaxRequests), while an administrator may remove the
\* session; the event loop runs every continuation that is ready
TurnsNext ==
    \/ \E h \in Clients : StartChat(h, "c1", "u1", "null", "cat1")
    \/ \E h \in Clients : CreateSession(h)
    \/ \E h \in Clients, m \in UserMessages : Chat(h, "c1", m)
    \/ \E h \in Clients : \E r \in Responses(handlers[h].request) :
          /\ handlers[h].request < MaxRequests \/ NoToolCalls(r.output)
          /\ StreamOpens(h, r)
    \/ \E h \in Clients : StreamFails(h)
    \/ \E h \in Clients : StreamDelta(h)
    \/ \E h \in Clients : StreamCompleted(h)
    \/ \E h \in Clients, t \in BOOLEAN : HandleFunctionCall(h, t)
    \/ \E h \in Clients : FunctionCallsHandled(h)
    \/ \E h \in Admins : RemoveSession(h, "c1")
    \/ \E h \in Handlers : Return(h)

\* the steps of a turn that the service and the event loop take in the end
TurnProgress(h) ==
    \/ \E r \in Responses(handlers[h].request) :
          /\ handlers[h].request < MaxRequests \/ NoToolCalls(r.output)
          /\ StreamOpens(h, r)
    \/ StreamDelta(h)
    \/ StreamCompleted(h)
    \/ \E t \in BOOLEAN : HandleFunctionCall(h, t)
    \/ FunctionCallsHandled(h)

SpecTurns ==
    RegistryInit /\ [][TurnsNext]_vars /\ \A h \in Clients : WF_vars(TurnProgress(h))

\* what the completion service may answer when it talks about books: a
\* message and a call of displayBooks in one response, or two message items
BookResponses(n) ==
    { [output |-> << AssistantTurn(ProviderId(n), Plain("looking")),
                     FunctionCall(CallId(n, 0), "displayBooks", DisplayArguments) >>,
       usage |-> 1],
      [output |-> << AssistantTurn(ProviderId(n), Plain("looking")),
                     AssistantTurn(ProviderId(n + MaxRequests), Plain("answer")) >>,
       usage |-> 1] }

\* the turns of one chat with either store behind the listeners
PersistOrderNext ==
    \/ \E h \in Clients : StartChat(h, "c1", "u1", "null", "cat1")
    \/ \E h \in Clients : CreateSession(h)
    \/ \E h \in Clients, m \in UserMessages : Chat(h, "c1", m)
    \/ \E h \in Clients : \E r \in BookResponses(handlers[h].request) : StreamOpens(h, r)
    \/ \E h \in Clients : StreamDelta(h)
    \/ \E h \in Clients : StreamCompleted(h)
    \/ \E h \in Clients : HandleFunctionCall(h, FALSE)
    \/ \E h \in Clients : FunctionCallsHandled(h)
    \/ \E h \in Clients : Return(h)

SpecPersistOrder == QuotaConcInit /\ [][PersistOrderNext]_vars

\* what the completion service may answer with token figures: a tool call
\* for two tokens, a message for one
TokenResponses(n) ==
    { [output |-> << FunctionCall(CallId(n, 0), "getEntries", NoArguments) >>, usage |-> 2],
      [output |-> << AssistantTurn(ProviderId(n), Plain("answer")) >>, usage |-> 1] }

\* two requests for the same chat may be in flight at once: a sendchat
\* request is served whether or not a turn of the session is running
OverlapNext ==
    \/ \E h \in Clients : StartChat(h, "c1", "u1", "null", "cat1")
    \/ \E h \in Clients : CreateSession(h)
    \/ \E h \in Handlers, m \in UserMessages :
          SendchatWith(h, "c1", m, "undefined", "undefined", "k1", FALSE)
    \/ \E h \in Handlers : \E r \in TokenResponses(handlers[h].request) : StreamOpens(h, r)
    \/ \E h \in Handlers : StreamDelta(h)
    \/ \E h \in Handlers : StreamCompleted(h)
    \/ \E h \in Handlers : HandleFunctionCall(h, FALSE)
    \/ \E h \in Handlers : FunctionCallsHandled(h)
    \/ \E h \in Handlers : Return(h)

SpecOverlap == RegistryInit /\ [][OverlapNext]_vars

\* users start chats and write to them while the administrator removes
\* sessions, blocks users and unblocks them
BlockNext ==
    \/ \E h \in Clients, c \in Chats, u \in Users : StartChat(h, c, u, "null", "cat1")
    \/ \E h \in Clients : CreateSession(h)
    \/ \E h \in Clients, c \in Chats :
          nextMessageId <= MaxLogLen /\ LogMessage(h, c, chatsMetadata[c].userId)
    \/ \E h \in Admins, c \in Chats : RemoveSession(h, c)
    \/ \E h \in Admins, u \in Users, b \in BOOLEAN : BlockUser(h, u, b)
    \/ \E h \in Admins : TerminateUserSessions(h)
    \/ \E h \in Admins : TerminateNext(h)
    \/ \E h \in Handlers : Return(h)

SpecBlock == RegistryInit /\ [][BlockNext]_vars

\* users are verified again and again, at any time, while the administrator
\* blocks and unblocks them; nobody is known at the start
VerifiedUsers ==
    {User(u, n, b, t) : u \in Users, n \in {"n1", "n2"},
                        b \in {Undefined(FALSE), Some(FALSE), Some(TRUE)},
                        t \in {Undefined(NoTime), Some([day |-> 0, hour |-> 0])}}

UsersInit ==
    /\ storageType \in StorageTypes
    /\ resetHour = 0
    /\ clock = [day |-> 0, hour |-> 0]
    /\ rows = << >>
    /\ dailyLimits = {}
    /\ procs = [p \in Callers |-> IdleCall]
    /\ lastCall = NoCall
    /\ lastCheck = NoCheck
    /\ exhaustedAt = [u \in QuotaUsers |-> NoTime]
    /\ lastSweep = NoTime
    /\ tally = [u \in QuotaUsers |-> FreshTally(0)]
    /\ users = [u \in Users |-> NoUser]
    /\ chatsMetadata = [c \in Chats |-> NoChat]
    /\ chats = [c \in Chats |-> << >>]
    /\ nextMessageId = 1
    /\ sessions = << >>
    /\ chatSessions = << >>
    /\ messagesQueues = [c \in Chats |-> NoQueue]
    /\ handlers = [h \in Handlers |-> IdleHandler]
    /\ nRequests = 0

UsersNext ==
    \/ \E h \in Clients, user \in VerifiedUsers : InitUser(h, user)
    \/ \E h \in Admins, u \in Users, b \in BOOLEAN : BlockUser(h, u, b)
    \/ \E h \in Admins : TerminateUserSessions(h)
    \/ \E h \in Handlers : Return(h)
    \/ Tick

SpecUsers == UsersInit /\ [][UsersNext]_vars

\* the turns of one chat while the store may refuse what the listeners log
PersistenceNext ==
    \/ \E h \in Clients : StartChat(h, "c1", "u1", "null", "cat1")
    \/ \E h \in Clients : CreateSession(h)
    \/ \E h \in Clients, m \in UserMessages : Chat(h, "c1", m)
    \/ \E h \in Clients : \E r \in Responses(handlers[h].request) : StreamOpens(h, r)
    \/ \E h \in Clients : StreamFails(h)
    \/ \E h \in Clients : StreamDelta(h)
    \/ \E h \in Clients, p \in BOOLEAN : StreamCompletedWith(h, p)
    \/ \E h \in Clients, t \in BOOLEAN, p \in BOOLEAN : HandleFunctionCallWith(h, t, p)
    \/ \E h \in Clients : FunctionCallsHandled(h)
    \/ \E h \in Clients : Return(h)

SpecPersistence == RegistryInit /\ [][PersistenceNext]_vars

\* the checks of sendchat: requests with either key, with and without a new
\* focus, while an administrator may block the owner or remove the session;
\* the completion service answers with text only
AccessNext ==
    \/ \E h \in Clients : StartChat(h, "c1", "u1", "null", "cat1")
    \/ \E h \in Clients : CreateSession(h)
    \/ \E h \in Clients, m \in UserMessages, e \in {"undefined", "b1"}, k \in {"k1", "k2"} :
          Sendchat(h, "c1", m, e, k)
    \/ \E h \in Clients :
          \E r \in {x \in Responses(handlers[h].request) : NoToolCalls(x.output)} :
              StreamOpens(h, r)
    \/ \E h \in Clients : StreamFails(h)
    \/ \E h \in Clients : StreamDelta(h)
    \/ \E h \in Clients : StreamCompleted(h)
    \/ \E h \in Admins : RemoveSession(h, "c1")
    \/ \E h \in Admins : BlockUser(h, "u1", TRUE)
    \/ \E h \in Admins : TerminateUserSessions(h)
    \/ \E h \in Admins : TerminateNext(h)
    \/ \E h \in Handlers : Return(h)

SpecAccess == RegistryInit /\ [][AccessNext]_vars

\* the focus of a session: chat c1 is started on item b1 of catalog cat1, and
\* its sendchat requests may name item b2 of catalog cat2
FocusNext ==
    \/ \E h \in Clients : StartChat(h, "c1", "u1", "b1", "cat1")
    \/ \E h \in Clients : CreateSession(h)
    \/ \E h \in Clients, m \in UserMessages,
          f \in {NoFocus, [entryId |-> "b2", catalogId |-> "cat2"]} :
          SendchatFocus(h, "c1", m, f.entryId, f.catalogId, "k1")
    \/ \E h \in Clients : \E r \in TwoChatResponses(handlers[h].request) : StreamOpens(h, r)
    \/ \E h \in Clients : StreamDelta(h)
    \/ \E h \in Clients : StreamCompleted(h)
    \/ \E h \in Clients : HandleFunctionCall(h, FALSE)
    \/ \E h \in Clients : FunctionCallsHandled(h)
    \/ \E h \in Clients : Return(h)

SpecFocus == RegistryInit /\ [][FocusNext]_vars

\* sendchat requests of a user whose daily usage is recorded by
\* recordMessageUsage; the completion service answers with text only
SendchatQuotaNext ==
    \/ \E u \in QuotaUsers, q \in Queries, t \in TokenInputs : RecordMessageUsage(u, q, t)
    \/ \E h \in Clients : StartChat(h, "c1", "u1", "null", "cat1")
    \/ \E h \in Clients : CreateSession(h)
    \/ \E h \in Clients, m \in UserMessages : Sendchat(h, "c1", m, "undefined", "k1")
    \/ \E h \in Clients :
          \E r \in {x \in Responses(handlers[h].request) : NoToolCalls(x.output)} :
              StreamOpens(h, r)
    \/ \E h \in Clients : StreamFails(h)
    \/ \E h \in Clients : StreamDelta(h)
    \/ \E h \in Clients : StreamCompleted(h)
    \/ \E h \in Handlers : Return(h)

SpecSendchatQuota == RegistryInit /\ [][SendchatQuotaNext]_vars

(***************************************************************************)
(* Resume of a persisted chat: the log of chat c1 is any sequence of up to *)
(* MaxLogLen stored messages, and no session is live.                      *)
(***************************************************************************)
\* the shapes of stored messages: a user message; agent messages with the
\* provider's id, with no msg_id and with an id of another form; book displays
\* as logged by displayBooksListener, by its older version (no catalogs), and
\* with books but without the markers in the text
StoredShapes ==
    { Message(0, "user", Plain("hello"), NoMsgId, Undefined(<< >>), Undefined({}), "u1"),
      Message(0, "agent", Plain("answer"), ProviderId(7), Undefined(<< >>), Undefined({}),
              "u1"),
      Message(0, "agent", Plain("answer"), NoMsgId, Undefined(<< >>), Undefined({}), "u1"),
      Message(0, "agent", Plain("answer"), [form |-> "resp_", src |-> "provider", n |-> 7],
              Undefined(<< >>), Undefined({}), "u1"),
      Message(0, "agent", Displayed(<<"b1">>) \o BookCatalogs({<<"b1", "cat1">>}), NoMsgId,
              Some(<<"b1">>), Some({<<"b1", "cat1">>}), "u1"),
      Message(0, "agent", Displayed(<<"b1">>), NoMsgId, Some(<<"b1">>), Undefined({}), "u1"),
      Message(0, "agent", Plain("see"), ProviderId(7), Some(<<"b1">>),
              Some({<<"b1", "cat1">>}), "u1") }

\* the logs of n messages; a message's id is its position
StoredLogs(n) ==
    {[i \in 1..n |-> [shapes[i] EXCEPT !.id = i, !.timestamp = [day |-> 0, hour |-> 0]]] :
        shapes \in [1..n -> StoredShapes]}

ReplayInit ==
    /\ QuotaAtRest
    /\ users = [u \in Users |-> StoredUser]
    /\ \E n \in 0..MaxLogLen : \E log \in StoredLogs(n) :
          /\ chats = [c \in Chats |-> IF c = "c1" THEN log ELSE << >>]
          /\ chatsMetadata = [c \in Chats |->
                 IF c = "c1" THEN [NoChat EXCEPT !.exists = TRUE, !.userId = "u1",
                                                 !.startedAt = clock, !.messageCount = n]
                 ELSE NoChat]
          /\ nextMessageId = n + 1
    /\ sessions = << >>
    /\ chatSessions = << >>
    /\ messagesQueues = [c \in Chats |-> NoQueue]
    /\ handlers = [h \in Handlers |-> IdleHandler]
    /\ nRequests = 0

ReplayNext ==
    \/ \E h \in Clients, u \in Users, e \in {"null", "b1"} :
          ResumeSession(h, "c1", u, e, "cat1")
    \/ \E h \in Clients : CreateSession(h)
    \/ \E h \in Clients : LoadChatHistoryIntoSession(h)
    \/ \E h \in Clients : RegisterSession(h)
    \/ \E h \in Clients : Return(h)

SpecReplay == ReplayInit /\ [][ReplayNext]_vars

\* the Storage Port on its own, with either adapter, while time passes
StorageInit == QuotaConcInit

StorageNext ==
    \/ \E h \in Clients, c \in Chats, u \in Users, t \in Titles : CreateChat(h, c, u, t)
    \/ \E h \in Clients : LogMessage(h, "c1", "u1")
    \/ \E h \in Clients : Return(h)
    \/ Tick

SpecStorage == StorageInit /\ [][StorageNext]_vars

\* the weighing of queries: requests charge their queries to the sender's budget
WeightNext ==
    \/ \E h \in Clients, u \in QuotaUsers, q \in WeightQueries : ChargeQuery(h, u, q)
    \/ \E h \in Clients : Return(h)

SpecWeight == RegistryInit /\ [][WeightNext]_vars

\* the queries of the Storage Port after any sequence of createChat, logMessage
\* and clearChatHistory calls, with either adapter, while time passes
HistoryNext ==
    \/ \E h \in Clients, c \in Chats, u \in Users : CreateChat(h, c, u, "undefined")
    \/ \E h \in Clients, u \in Users : nextMessageId <= MaxLogLen /\ LogMessage(h, "c1", u)
    \/ \E h \in Clients : ClearChatHistory(h, "c1")
    \/ \E h \in Clients : GetFullChatHistory(h, "c1")
    \/ \E h \in Clients, u \in Users : GetUserMessagesInChat(h, "c1", u)
    \/ \E h \in Clients, u \in Users : GetChatsByUser(h, u)
    \/ \E h \in Clients : Return(h)
    \/ Tick

SpecHistory == StorageInit /\ [][HistoryNext]_vars

\* resumeSession called by two requests at once: every handler resumes chat c1
ResumeRaceNext ==
    \/ \E h \in Handlers : ResumeSession(h, "c1", "u1", "null", "cat1")
    \/ \E h \in Handlers : CreateSession(h)
    \/ \E h \in Handlers : LoadChatHistoryIntoSession(h)
    \/ \E h \in Handlers : RegisterSession(h)
    \/ \E h \in Handlers : Return(h)

SpecResumeRace == ReplayInit /\ [][ResumeRaceNext]_vars

(***************************************************************************)
(* Two conversations side by side: chat c1 of user u1 and chat c2 of user  *)
(* u2 are created, talked to and removed in any interleaving; c1 is also   *)
(* resumed and has the turns with tool calls.                              *)
(***************************************************************************)
OwnerOf(chatId) == IF chatId = "c1" THEN "u1" ELSE "u2"

\* each request handler serves one of the two chats
ChatOf(h) == IF h = "h1" THEN "c1" ELSE "c2"

TwoChatsNext ==
    \/ \E h \in Handlers : StartChat(h, ChatOf(h), OwnerOf(ChatOf(h)), "null", "cat1")
    \/ \E h \in Clients : ResumeSession(h, ChatOf(h), OwnerOf(ChatOf(h)), "b1", "cat1")
    \/ \E h \in Handlers : CreateSession(h)
    \/ \E h \in Handlers : LoadChatHistoryIntoSession(h)
    \/ \E h \in Handlers : RegisterSession(h)
    \/ \E h \in Handlers, m \in UserMessages : Chat(h, ChatOf(h), m)
    \/ \E h \in Handlers : \E r \in TwoChatResponses(handlers[h].request) :
          (h \in Clients \/ NoToolCalls(r.output)) /\ StreamOpens(h, r)
    \/ \E h \in Handlers : StreamDelta(h)
    \/ \E h \in Handlers : StreamCompleted(h)
    \/ \E h \in Handlers : HandleFunctionCall(h, FALSE)
    \/ \E h \in Handlers : FunctionCallsHandled(h)
    \/ \E h \in Handlers : RemoveSession(h, ChatOf(h))
    \/ \E h \in Handlers : Return(h)

SpecTwoChats == RegistryInit /\ [][TwoChatsNext]_vars

(***************************************************************************)
(* C1: once remove or terminateForUser has deleted the event queue of a    *)
(* session whose chat() is still in flight, the events that orchestrator   *)
(* emits are dropped silently: no listener raises an exception and chat()  *)
(* does not fail because of it.                                            *)
(***************************************************************************)
C1_EventsAfterRemovalAreDropped ==
    \A h \in Handlers :
        (handlers[h].op = "chat" /\ ~messagesQueues[handlers[h].chatId].present)
            => handlers[h].error # "listener"

(***************************************************************************)
(* C2: when terminateUserSessions(u) returns, no session owned by u is     *)
(* registered, also when a create or resume of u was suspended at a        *)
(* storage call while the termination ran.                                 *)
(***************************************************************************)
C2_NoSessionLeftAtReturn ==
    \A h \in Handlers : handlers[h].pc = "terminated" => handlers[h].live = {}

(***************************************************************************)
(* C3: handleFunctionCalls yields one function_call_output per call, in    *)
(* the order of the calls and with the call's id, whatever the call (a     *)
(* catalog failure, an unknown tool, malformed arguments), and no          *)
(* exception leaves it.                                                    *)
(***************************************************************************)
C3_OneOutputPerCall ==
    \A h \in Handlers :
        handlers[h].op = "chat" =>
            /\ handlers[h].error # "arguments"
            /\ handlers[h].pc = "tools" =>
                 \A i \in 1..Len(handlers[h].output) :
                     /\ handlers[h].output[i].type = "function_call_output"
                     /\ handlers[h].output[i].call_id = handlers[h].stack[i].call_id

(***************************************************************************)
(* C4: in the transcript sent with any completion request every            *)
(* function_call has exactly one function_call_output of its call id after *)
(* it, whatever turns (failed ones included) came before.                  *)
(***************************************************************************)
Answered(transcript, i) ==
    Cardinality({j \in (i + 1)..Len(transcript) :
                    /\ transcript[j].type = "function_call_output"
                    /\ transcript[j].call_id = transcript[i].call_id}) = 1

C4_EveryCallAnswered ==
    \A h \in Handlers :
        handlers[h].pc = "requested" =>
            \A i \in 1..Len(handlers[h].sent) :
                handlers[h].sent[i].type = "function_call" => Answered(handlers[h].sent, i)

(***************************************************************************)
(* C5: for any interleaving of concurrent recordMessageUsage calls the     *)
(* stored messages_used never exceeds messages_limit and the stored        *)
(* tokens_used never exceeds tokens_limit.                                 *)
(***************************************************************************)
C5_UsageNeverExceedsLimit ==
    \A id \in dailyLimits :
        /\ rows[id].messages_used <= rows[id].messages_limit
        /\ rows[id].tokens_used <= rows[id].tokens_limit

(***************************************************************************)
(* C6: when recordMessageUsage reports denial (by the message check or by  *)
(* the token check) the stored messages_used and tokens_used of every row  *)
(* are what they were before the call; a call that passes the message      *)
(* check and fails the token check increments nothing.                     *)
(***************************************************************************)
C6_DenialIncrementsNothing ==
    lastCall.cause # "none" => ~lastCall.changed

\* a call was denied by the token check while message budget was left
C6_Witness ==
    /\ lastCall.cause = "tokens"
    /\ StoredUsage(dailyLimits, rows, lastCall.user, getTodayDate).messages < MessagesPerDay
    /\ StoredUsage(dailyLimits, rows, lastCall.user, getTodayDate).tokens > 0

(***************************************************************************)
(* C7: with no prior usage today and enough token budget, sequential       *)
(* weight-1.0 calls are admitted exactly until messages_limit of them have *)
(* been admitted and every later one is denied; once the limit-th call is  *)
(* admitted checkMessageQuota reports allowed = FALSE and remaining = 0.   *)
(***************************************************************************)
C7_ExactlyFirstLimitAdmitted ==
    \A u \in QuotaUsers :
        tally[u].plain =>
            /\ tally[u].admitted = Min(tally[u].calls, MessagesPerDay)
            /\ (/\ lastCheck.user = u
                 /\ tally[u].day = getTodayDate
                 /\ tally[u].admitted = MessagesPerDay)
                => (~lastCheck.check.allowed /\ lastCheck.check.remaining = 0)

C7_Witness ==
    \E u \in QuotaUsers :
        /\ tally[u].plain
        /\ tally[u].calls = MessagesPerDay + 1
        /\ tally[u].admitted = MessagesPerDay
        /\ lastCheck.user = u
        /\ ~lastCheck.check.allowed

(***************************************************************************)
(* C8: once the configured reset hour has passed and the sweep has run, a  *)
(* user whose message budget was used up before that reset hour is         *)
(* admitted again by recordMessageUsage.                                   *)
(***************************************************************************)
PlainQuery == [words |-> {}, length |-> 5]

C8_AdmittedAgainAfterResetHour ==
    \A u \in QuotaUsers :
        (/\ exhaustedAt[u] # NoTime
         /\ Before(exhaustedAt[u], LastResetTime)
         /\ lastSweep # NoTime
         /\ ~Before(lastSweep, LastResetTime))
        => recordMessageUsage(dailyLimits, rows, u, PlainQuery, 0).admitted

(***************************************************************************)
(* C9: there is at most one DailyLimit row per (user, date), and outside   *)
(* the reset sweep the usage stored for a (user, date) never decreases     *)
(* (lazy creation does not replace a row, no admitted usage is lost).      *)
(***************************************************************************)
C9_OneRowUsageNeverDecreases ==
    [][ /\ \A u \in QuotaUsers, d \in Days :
             Cardinality(RowsFor(dailyLimits', rows', u, d)) <= 1
        /\ \/ ResetExpiredDailyLimits
           \/ \A u \in QuotaUsers, d \in Days :
                 /\ StoredUsage(dailyLimits', rows', u, d).messages
                      >= StoredUsage(dailyLimits, rows, u, d).messages
                 /\ StoredUsage(dailyLimits', rows', u, d).tokens
                      >= StoredUsage(dailyLimits, rows, u, d).tokens ]_vars

(***************************************************************************)
(* C10: when resumeSession has rebuilt a chat that had no live session,    *)
(* the session's transcript has one turn per persisted message, in log     *)
(* order: a user turn with the same text for a user message, an assistant  *)
(* turn for an agent message.                                              *)
(***************************************************************************)
Rebuilt(h) ==
    /\ handlers[h].op = "resume"
    /\ handlers[h].pc = "resumed"
    /\ handlers[h].loadHistory

C10_ReplayOneTurnPerMessage ==
    \A h \in Handlers :
        Rebuilt(h) =>
            LET log == chats[handlers[h].chatId]
                transcript == sessions[handlers[h].session].chatHistory
            IN  /\ Len(transcript) = Len(log)
                /\ \A i \in 1..Len(log) :
                      /\ log[i].sender = "user" =>
                            (transcript[i].type = "user" /\ transcript[i].text = log[i].text)
                      /\ log[i].sender = "agent" => transcript[i].type = "message"

\* a log of full length with a user message and a book display was replayed
C10_Witness ==
    \E h \in Handlers :
        /\ Rebuilt(h)
        /\ Len(chats[handlers[h].chatId]) = MaxLogLen
        /\ \E i, j \in 1..MaxLogLen :
              /\ chats[handlers[h].chatId][i].sender = "user"
              /\ chats[handlers[h].chatId][j].sender = "agent"
              /\ HasBooks(chats[handlers[h].chatId][j])
        /\ Len(sessions[handlers[h].session].chatHistory) = MaxLogLen

(***************************************************************************)
(* C11: in every transcript produced by replay each assistant turn has an  *)
(* id of the form "msg_...": the stored provider id when it has that form, *)
(* otherwise one synthesized from the message's own id, different from the *)
(* id of every other replayed message; and no tool-output turn stands      *)
(* without an earlier tool-call turn of the same call id.                  *)
(***************************************************************************)
Synthesized(msg) == msg.sender = "agent" /\ msg.msg_id.form # "msg_"

C11_ReplayedTurnsWellFormed ==
    \A h \in Handlers :
        Rebuilt(h) =>
            LET log == chats[handlers[h].chatId]
                transcript == sessions[handlers[h].session].chatHistory
            IN  /\ \A i \in 1..Len(transcript) :
                      transcript[i].type = "message" =>
                          /\ transcript[i].id.form = "msg_"
                          /\ i <= Len(log)
                          /\ log[i].msg_id.form = "msg_" => transcript[i].id = log[i].msg_id
                          /\ Synthesized(log[i]) =>
                                \A j \in 1..Len(transcript) :
                                    (j # i /\ transcript[j].type = "message")
                                        => transcript[j].id # transcript[i].id
                /\ \A i \in 1..Len(transcript) :
                      transcript[i].type = "function_call_output" =>
                          \E j \in 1..(i - 1) :
                              /\ transcript[j].type = "function_call"
                              /\ transcript[j].call_id = transcript[i].call_id

\* a replayed log held a provider id, a missing id and an id of another form
C11_Witness ==
    \E h \in Handlers :
        /\ Rebuilt(h)
        /\ \E i, j, k \in 1..Len(chats[handlers[h].chatId]) :
              LET log == chats[handlers[h].chatId]
              IN  /\ log[i].sender = "agent" /\ log[i].msg_id.form = "msg_"
                  /\ log[j].sender = "agent" /\ log[j].msg_id.form = "undefined"
                  /\ log[k].sender = "agent" /\ log[k].msg_id.form = "resp_"
        /\ Len(sessions[handlers[h].session].chatHistory) = MaxLogLen

(***************************************************************************)
(* C12: resumeSession on a chat id that has a live session returns that    *)
(* session and changes nothing: not the session map, the transcript, the   *)
(* focus, the owner, the event queue or the persisted log, also when the   *)
(* call passes another focus or user id.                                   *)
(***************************************************************************)
C12_ResumeOfLiveSessionChangesNothing ==
    [][ \A h \in Handlers :
          (/\ handlers[h].pc = "idle"
           /\ handlers'[h].op = "resume"
           /\ \E i \in 1..Len(chatSessions) : chatSessions[i].chatId = handlers'[h].chatId)
          => /\ handlers'[h].pc = "resumed"
             /\ \E i \in 1..Len(chatSessions) :
                   /\ chatSessions[i].chatId = handlers'[h].chatId
                   /\ chatSessions[i].session = handlers'[h].session
             /\ chatSessions' = chatSessions
             /\ sessions' = sessions
             /\ messagesQueues' = messagesQueues
             /\ chats' = chats
             /\ chatsMetadata' = chatsMetadata ]_vars

\* the live session was returned to a call that named another user and focus
C12_Witness ==
    \E h \in Handlers :
        /\ handlers[h].op = "resume"
        /\ handlers[h].pc = "resumed"
        /\ ~handlers[h].loadHistory
        /\ handlers[h].session = getSession(chatSessions, handlers[h].chatId)
        /\ handlers[h].session # NoSession
        /\ handlers[h].userId # sessions[handlers[h].session].userId
        /\ handlers[h].entryId # sessions[handlers[h].session].entryId
        /\ Len(sessions[handlers[h].session].chatHistory) > 0
        /\ messagesQueues[handlers[h].chatId].items # << >>

(***************************************************************************)
(* C13: when two resumeSession calls for the same chat id overlap and no   *)
(* session was live at the start, exactly one orchestrator is registered,  *)
(* both callers receive that orchestrator, and the event queue holds each  *)
(* replayed item-display event exactly once.                               *)
(***************************************************************************)
DisplaysOf(log) == {i \in 1..Len(log) : log[i].sender = "agent" /\ HasBooks(log[i])}

C13_OverlappingResumesShareOneSession ==
    \A g, h \in Handlers :
        (g # h /\ Rebuilt(g) /\ Rebuilt(h) /\ handlers[g].chatId = handlers[h].chatId) =>
            LET chatId == handlers[h].chatId
            IN  /\ Cardinality({i \in 1..Len(chatSessions) :
                                   chatSessions[i].chatId = chatId}) = 1
                /\ handlers[g].session = getSession(chatSessions, chatId)
                /\ handlers[h].session = getSession(chatSessions, chatId)
                /\ Len(messagesQueues[chatId].items) = Cardinality(DisplaysOf(chats[chatId]))

(***************************************************************************)
(* C14: createChat called again with an id that already exists returns the *)
(* record created by the first call (same chat id, owner and start time)   *)
(* and leaves chat records, aggregates and logs unchanged, also when the   *)
(* second call names another user or title; with either adapter.           *)
(***************************************************************************)
C14_CreateChatIsIdempotent ==
    [][ \A h \in Handlers :
          (/\ handlers[h].pc = "idle"
           /\ handlers'[h].op = "createChat"
           /\ chatsMetadata[handlers'[h].chatId].exists)
          => LET chatId == handlers'[h].chatId
             IN  /\ ~handlers'[h].chat.isNull
                 /\ handlers'[h].chat.chatId = chatId
                 /\ handlers'[h].chat.userId = chatsMetadata[chatId].userId
                 /\ handlers'[h].chat.startedAt = chatsMetadata[chatId].startedAt
                 /\ chatsMetadata' = chatsMetadata
                 /\ chats' = chats ]_vars

\* a later second call with another user and title got the first call's record
C14_Witness ==
    \E h \in Handlers :
        /\ handlers[h].op = "createChat"
        /\ storageType = "postgres"
        /\ ~handlers[h].chat.isNull
        /\ handlers[h].chat.userId # handlers[h].userId
        /\ handlers[h].title # chatsMetadata[handlers[h].chatId].title
        /\ Before(handlers[h].chat.startedAt, clock)
        /\ chats[handlers[h].chatId] # << >>

(***************************************************************************)
(* C15: when the response of a round holds no tool-call item, the turn     *)
(* ends as completed and no further completion request is issued for it.   *)
(***************************************************************************)
C15_ZeroToolCallsCompleteTheTurn ==
    [][ \A h \in Handlers :
          /\ (/\ handlers[h].pc = "streaming"
              /\ MessagesFrom(handlers[h].items, handlers[h].cursor) = {}
              /\ NoToolCalls(handlers[h].items)
              /\ handlers'[h].pc # "streaming"
              /\ handlers'[h].error # "stream")
             => /\ handlers'[h].pc = "completed"
                /\ handlers'[h].request = handlers[h].request
                /\ nRequests' = nRequests
          /\ handlers[h].pc = "completed"
             => /\ handlers'[h].pc \in {"completed", "idle"}
                /\ nRequests' = nRequests ]_vars

(***************************************************************************)
(* C16: each displayBooks tool call emits exactly one entries event that   *)
(* carries the id list of the call and its id-to-catalog mapping, makes no *)
(* call of the catalog, yields the success acknowledgement as its tool     *)
(* output, and is followed by a further completion round.  (Stated for a   *)
(* session whose event queue exists.)                                      *)
(***************************************************************************)
C16_DisplayCallEmitsOneEntriesEvent ==
    [][ \A h \in Handlers :
          LET me == handlers[h]
              item == me.stack[Len(me.output) + 1]
              chatId == sessions[me.session].chatId
          IN  /\ (/\ me.pc = "tools"
                  /\ Len(me.output) < Len(me.stack)
                  /\ item.name = "displayBooks"
                  /\ item.arguments.parses
                  /\ messagesQueues[chatId].present
                  /\ handlers'[h].output # me.output)
                 => /\ messagesQueues'[chatId].items =
                          Append(messagesQueues[chatId].items,
                                 Event("entries", << >>, NoMsgId, item.arguments.ids,
                                       item.arguments.books))
                    /\ handlers'[h].catalog = me.catalog
                    /\ handlers'[h].output[Len(handlers'[h].output)].output.success
              /\ (/\ me.pc = "tools"
                  /\ Len(me.output) = Len(me.stack)
                  /\ handlers'[h] # me)
                 => handlers'[h].pc = "requested" ]_vars

(***************************************************************************)
(* C17: a getEntryDetails call whose catalog id cannot be resolved (the    *)
(* model supplied none and the session's catalog client has none) yields a *)
(* tool-output turn with an error payload, sends no request to the catalog *)
(* service, and does not make chat() fail.                                 *)
(***************************************************************************)
Unresolvable(session, item) ==
    /\ item.name = "getEntryDetails"
    /\ item.arguments.parses
    /\ item.arguments.catalogId = "undefined"
    /\ session.elviraClient.catalogId = ""

C17_UnresolvedCatalogGivesErrorOutput ==
    [][ \A h \in Handlers :
          LET me == handlers[h]
              item == me.stack[Len(me.output) + 1]
          IN  (/\ me.pc = "tools"
               /\ Len(me.output) < Len(me.stack)
               /\ Unresolvable(sessions[me.session], item)
               /\ handlers'[h] # me)
              => /\ handlers'[h].pc = "tools"
                 /\ handlers'[h].error = "none"
                 /\ handlers'[h].output =
                       Append(me.output,
                              FunctionCallOutput(item.call_id,
                                                 [success |-> FALSE,
                                                  error |-> "error.message"]))
                 /\ handlers'[h].catalog = me.catalog ]_vars

\* such a call was answered by an error output and the turn went on
C17_Witness ==
    \E h \in Handlers :
        /\ handlers[h].pc = "requested"
        /\ Len(handlers[h].stack) > 0
        /\ Unresolvable(sessions[handlers[h].session], handlers[h].stack[1])
        /\ Len(handlers[h].output) = Len(handlers[h].stack)
        /\ ~handlers[h].output[1].output.success
        /\ handlers[h].output[1].call_id = handlers[h].stack[1].call_id
        /\ handlers[h].catalog = << >>

(***************************************************************************)
(* C18: the events written to a sendchat response are exactly the events   *)
(* the listeners emitted during that turn, each once and in the order of   *)
(* emission (events that were in the queue before the turn are not among   *)
(* them), followed by exactly one terminal event: done when chat()         *)
(* completed, error when it failed.                                        *)
(***************************************************************************)
C18_ResponseIsTheTurnsEvents ==
    \A h \in Handlers :
        (handlers[h].op = "chat" /\ handlers[h].pc = "ended") =>
            handlers[h].written =
                handlers[h].emitted
                    \o << TerminalEvent(IF handlers[h].error = "none" THEN "done"
                                        ELSE "error") >>

(***************************************************************************)
(* C19: a sendchat request reaches the orchestrator only if a live session *)
(* exists for the chat, the owner of the session is not blocked and the    *)
(* API key of the request equals the key that created the session; a       *)
(* rejected request leaves transcript, focus, event queue and persisted    *)
(* log unchanged.                                                          *)
(***************************************************************************)
Admissible(chatId, apiKey) ==
    \E i \in 1..Len(chatSessions) :
        /\ chatSessions[i].chatId = chatId
        /\ ~users[sessions[chatSessions[i].session].userId].blocked
        /\ sessions[chatSessions[i].session].elviraClient.apiKey = apiKey

C19_OnlyAdmissibleRequestsReachTheOrchestrator ==
    [][ \A h \in Handlers :
          (handlers[h].pc = "idle" /\ handlers'[h].op \in {"chat", "sendchat"}) =>
              /\ handlers'[h].op = "chat"
                    => Admissible(handlers'[h].chatId, handlers'[h].apiKey)
              /\ ~Admissible(handlers'[h].chatId, handlers'[h].apiKey)
                    => /\ handlers'[h].status \in {401, 403, 404}
                       /\ sessions' = sessions
                       /\ chatSessions' = chatSessions
                       /\ messagesQueues' = messagesQueues
                       /\ chats' = chats
                       /\ chatsMetadata' = chatsMetadata
                       /\ nRequests' = nRequests ]_vars

\* a request with another key was refused on a live session that had a turn
C19_Witness ==
    \E h \in Handlers :
        /\ handlers[h].op = "sendchat"
        /\ handlers[h].status = 401
        /\ hasSession(chatSessions, handlers[h].chatId)
        /\ Len(sessions[getSession(chatSessions, handlers[h].chatId)].chatHistory) > 1
        /\ messagesQueues[handlers[h].chatId].items # << >>
        /\ chats[handlers[h].chatId] # << >>

(***************************************************************************)
(* C20: when the daily message budget of the sender is exhausted, sendchat *)
(* rejects the request with a 429 outcome that carries the remaining       *)
(* budget, the limit and the reset time; the message is not passed to the  *)
(* orchestrator and no usage is incremented.                               *)
(***************************************************************************)
BudgetExhausted(userId) ==
    LET id == getDailyLimit(dailyLimits, rows, userId, getTodayDate)
    IN  id # NoRow /\ ~UsageCheckOf(rows[id]).allowed

C20_ExhaustedBudgetRejectsSendchat ==
    [][ \A h \in Handlers :
          (/\ handlers[h].pc = "idle"
           /\ handlers'[h].op \in {"chat", "sendchat"}
           /\ hasSession(chatSessions, handlers'[h].chatId)
           /\ BudgetExhausted(sessions[getSession(chatSessions,
                                                  handlers'[h].chatId)].userId))
          => /\ handlers'[h].op = "sendchat"
             /\ handlers'[h].status = 429
             /\ sessions' = sessions
             /\ rows' = rows ]_vars

StrictlyAscending(msgs) ==
    \A i \in 1..(Len(msgs) - 1) : Before(msgs[i].timestamp, msgs[i + 1].timestamp)

C22_HistoryStrictlyAscending ==
    \A h \in Handlers :
        handlers[h].op \in {"history", "userMessages"}
            => StrictlyAscending(handlers[h].messages)

(***************************************************************************)
(* C23: a failure to persist an agent message or an item-display message   *)
(* does not affect the live conversation: the event is enqueued all the    *)
(* same, the transcript is what it is without the failure, nothing is      *)
(* stored, and chat() does not fail because of it.                         *)
(***************************************************************************)
C23_PersistenceFailureIsNotFelt ==
    [][ \A h \in Handlers :
          LET me == handlers[h]
              session == sessions[me.session]
              item == me.stack[Len(me.output) + 1]
          IN  (me.op = "chat" /\ handlers'[h].lost > me.lost) =>
                  /\ handlers'[h].pc # "failed"
                  /\ handlers'[h].error = "none"
                  /\ chats' = chats
                  /\ IF me.pc = "streaming"
                       THEN /\ messagesQueues' =
                                  NotifyMessages(World, session.chatId, session.userId,
                                                 me.items).messagesQueues
                            /\ messagesQueues' # messagesQueues
                            /\ sessions'[me.session].chatHistory =
                                  session.chatHistory \o me.items
                            /\ handlers'[h].pc = IF NoToolCalls(me.items) THEN "completed"
                                                 ELSE "tools"
                       ELSE /\ messagesQueues' =
                                  displayBooksListener(World, session.chatId, session.userId,
                                                       item.arguments.ids,
                                                       Undefined({})).messagesQueues
                            /\ messagesQueues' # messagesQueues
                            /\ sessions' = sessions
                            /\ handlers'[h].output =
                                  Append(me.output, FunctionCallOutput(item.call_id, NoOutput))
        ]_vars

\* a turn completed although neither its book display nor its answer was stored
C23_Witness ==
    \E h \in Handlers :
        /\ handlers[h].op = "chat"
        /\ handlers[h].pc = "completed"
        /\ handlers[h].lost >= 2
        /\ \E i, j \in 1..Len(handlers[h].emitted) :
              /\ handlers[h].emitted[i].type = "entries"
              /\ handlers[h].emitted[j].type = "message"
        /\ \A i \in 1..Len(chats[handlers[h].chatId]) :
              chats[handlers[h].chatId][i].sender = "user"

(***************************************************************************)
(* C24: if the completion stream fails in some round of a turn, the        *)
(* sendchat stream ends with a single error event and no done event, and   *)
(* the transcript keeps everything appended before the failure (the user   *)
(* turn, the output items and tool outputs of the earlier rounds): it is   *)
(* the transcript that was sent with the failed request.                   *)
(***************************************************************************)
C24_StreamFailureEndsWithError ==
    \A h \in Handlers :
        (handlers[h].op = "chat" /\ handlers[h].error = "stream") =>
            /\ sessions[handlers[h].session].chatHistory = handlers[h].sent
            /\ handlers[h].sent[1].type = "user"
            /\ handlers[h].pc = "ended" =>
                  LET written == handlers[h].written
                  IN  /\ written # << >>
                      /\ written[Len(written)].type = "error"
                      /\ \A i \in 1..(Len(written) - 1) :
                            written[i].type \notin {"error", "done"}

\* the stream failed in a later round, after text had been streamed
C24_Witness ==
    \E h \in Handlers :
        /\ handlers[h].op = "chat"
        /\ handlers[h].error = "stream"
        /\ handlers[h].pc = "ended"
        /\ \E i \in 1..Len(handlers[h].sent) :
              handlers[h].sent[i].type = "function_call_output"
        /\ \E i \in 1..Len(handlers[h].written) : handlers[h].written[i].type = "chunk"
        /\ \E i \in 1..Len(handlers[h].written) : handlers[h].written[i].type = "entries"

(***************************************************************************)
(* C25: the weight of a query is a function of its catalog-keyword hit     *)
(* count l, its complex-keyword hit count c and its length n: 1.0 if       *)
(* l > c; min(3.0, 1.5 + 0.3 * c) if c > l; otherwise (l = c, also when    *)
(* both are nonzero) 1.5 if n > 500 and 1.0 if not.  The message cost      *)
(* charged by recordMessageUsage is ceil(weight): the call is admitted     *)
(* exactly if the usage plus that cost stays within the limit, and then    *)
(* it adds that cost.  (Weights in tenths.)                                *)
(***************************************************************************)
ClaimedWeight(l, c, n) ==
    IF l > c THEN 10
    ELSE IF c > l THEN (IF 15 + 3 * c < 30 THEN 15 + 3 * c ELSE 30)
    ELSE IF n > 500 THEN 15
    ELSE 10

ClaimedCost(w) == CHOOSE k \in 0..4 : 10 * k >= w /\ 10 * (k - 1) < w

C25_WeightIsTheClaimedFunction ==
    \A h \in Handlers :
        handlers[h].op = "record" =>
            LET q == handlers[h].query
                l == Cardinality(q.words \cap LIBRARY_KEYWORDS)
                c == Cardinality(q.words \cap COMPLEX_KEYWORDS)
                cost == ClaimedCost(handlers[h].weight)
            IN  /\ handlers[h].weight = ClaimedWeight(l, c, q.length)
                /\ handlers[h].admitted <=> handlers[h].used + cost <= MessagesPerDay
                /\ handlers[h].charged = IF handlers[h].admitted THEN cost ELSE 0

\* a long query with as many catalog as complex keywords was weighed 1.5 and
\* charged 2, which used up the budget
C25_Witness ==
    /\ \E h \in Handlers :
          /\ handlers[h].op = "record"
          /\ handlers[h].query.length > 500
          /\ Cardinality(handlers[h].query.words \cap LIBRARY_KEYWORDS) = 2
          /\ Cardinality(handlers[h].query.words \cap COMPLEX_KEYWORDS) = 2
          /\ handlers[h].weight = 15
          /\ handlers[h].charged = 2
    /\ \E id \in dailyLimits : rows[id].messages_used = 2

(***************************************************************************)
(* C26: a request that sets the focus (item id and catalog id) changes the *)
(* item id and the catalog id used in the system instruction of every      *)
(* later completion request of that session and leaves the transcript      *)
(* exactly as it was (but for the user turn of the request itself).        *)
(***************************************************************************)
C26_FocusChangesItemAndCatalog ==
    [][ \A h \in Handlers :
          (/\ handlers[h].pc = "idle"
           /\ handlers'[h].op = "chat"
           /\ handlers'[h].focus # NoFocus)
          => /\ handlers'[h].instructions = handlers'[h].focus
             /\ getSystemPrompt(sessions'[handlers'[h].session]) = handlers'[h].focus
             /\ sessions'[handlers'[h].session].chatHistory =
                   Append(sessions[handlers'[h].session].chatHistory,
                          handlers'[h].sent[Len(handlers'[h].sent)]) ]_vars

(***************************************************************************)
(* C27: conversations share no mutable state: any operation on chat A      *)
(* (create, resume, a chat turn with its events and tool calls, remove)    *)
(* leaves chat B's session, transcript, focus, event queue, persisted log  *)
(* and chat record unchanged, for any interleaving of operations on A and  *)
(* B.                                                                      *)
(***************************************************************************)
C27_ChatsShareNoState ==
    [][ \A h \in Handlers :
          handlers'[h] # handlers[h] =>
              LET A == IF handlers[h].chatId # "none" THEN handlers[h].chatId
                       ELSE handlers'[h].chatId
              IN  \A B \in Chats \ {A} :
                      /\ getSession(chatSessions', B) = getSession(chatSessions, B)
                      /\ \A i \in 1..Len(sessions) :
                            sessions[i].chatId = B => sessions'[i] = sessions[i]
                      /\ messagesQueues'[B] = messagesQueues[B]
                      /\ chats'[B] = chats[B]
                      /\ chatsMetadata'[B] = chatsMetadata[B] ]_vars

\* both chats are in the middle of a turn, the first one at its tool calls after
\* a resume, and each has a transcript, queued events and a log
C27_Witness ==
    /\ handlers["h1"].op = "chat" /\ handlers["h1"].pc = "tools"
    /\ handlers["h2"].op = "chat" /\ handlers["h2"].pc = "streaming"
    /\ \A c \in Chats :
          /\ hasSession(chatSessions, c)
          /\ Len(sessions[getSession(chatSessions, c)].chatHistory) > 1
          /\ messagesQueues[c].items # << >>
          /\ chats[c] # << >>
    /\ sessions[getSession(chatSessions, "c1")].entryId = "b1"

\* C28: a startchat request of a blocked user is answered with 403, and the
\* step that serves it leaves the registered sessions, the session objects, the
\* event queues and the chat records as they were; the refused handler creates
\* nothing afterwards either, its only step is the answer
C28_BlockedStartchatCreatesNothing ==
    [][\A h \in Handlers :
          /\ (/\ handlers[h].pc = "idle"
              /\ handlers'[h].op = "startchat"
              /\ users[handlers'[h].userId].blocked)
                 => /\ handlers'[h].status = 403
                    /\ handlers'[h].pc = "answering"
                    /\ UNCHANGED <<sessions, chatSessions, messagesQueues, chatsMetadata,
                                   chats>>
          /\ (handlers[h].op = "startchat" /\ handlers[h].status = 403)
                 => \/ handlers'[h] = handlers[h]
                    \/ /\ handlers'[h] = IdleHandler
                       /\ UNCHANGED <<sessions, chatSessions, messagesQueues,
                                      chatsMetadata, chats>>]_vars

\* a blocked user has been refused while the other user's chat is live
C28_Witness ==
    \E h \in Handlers :
        /\ handlers[h].op = "startchat"
        /\ handlers[h].status = 403
        /\ users[handlers[h].userId].blocked
        /\ chatSessions # << >>
        /\ \A c \in Chats : chatsMetadata[c].exists => chatsMetadata[c].userId # handlers[h].userId

\* the entries events of a log: one for each agent message with a non-empty
\* id list, in the order of the log, with its ids and its id-to-catalog mapping
DisplayEvents(log) ==
    LET shown == SelectSeq(log, LAMBDA m : /\ m.sender = "agent"
                                           /\ m.bookIds.def
                                           /\ m.bookIds.v # << >>)
    IN  [i \in 1..Len(shown) |->
            Event("entries", << >>, NoMsgId, shown[i].bookIds, shown[i].bookCatalogs)]

\* C29: when a resume that found no live session has returned, the event
\* queue of the chat holds exactly the entries events of the persisted log:
\* one per agent message with a non-empty id list, in log order, with that
\* message's ids and mapping, and nothing else
C29_ResumeRepopulatesQueue ==
    \A h \in Handlers :
        Rebuilt(h) =>
            /\ messagesQueues[handlers[h].chatId].present
            /\ messagesQueues[handlers[h].chatId].items =
                   DisplayEvents(chats[handlers[h].chatId])

\* C30: whichever store is configured, the answer of a chats-by-user query is
\* the set of chat ids that either store gives for the records and logs the
\* same createChat, message-append and clear-history calls have left, and
\* the answer of a history query is the message sequence that either gives
C30_StoresInterchangeable ==
    \A h \in Handlers :
        LET me == handlers[h]
        IN  /\ me.op = "chatsByUser" =>
                   /\ me.chatIds = getChatsByUserLocal(chats, me.userId)
                   /\ me.chatIds = getChatsByUserPostgres(chatsMetadata, chats, me.userId)
            /\ me.op = "history" =>
                   /\ me.messages = getFullChatHistoryLocal(chats, me.chatId)
                   /\ getChatHistoryPostgres(chats, me.chatId) = {me.messages}
            /\ me.op = "userMessages" =>
                   /\ me.messages = getUserMessagesInChatLocal(chats, me.chatId, me.userId)
                   /\ getUserMessagesInChatPostgres(chats, me.chatId, me.userId)
                          = {me.messages}

\* a source supplies a key when it is a bearer Authorization header (the
\* scheme and something after it), or a non-empty string in another place
SuppliesBearer(value) ==
    /\ value.kind = "string"
    /\ Len(value.words) >= 2
    /\ value.words[1] \in {"Bearer", "bearer", "BEARER"}

SuppliesPlain(value) == value.kind = "string" /\ value.words # <<"">>

\* the sources of a request that supply a key, numbered by precedence
Supplying(req) ==
    {i \in 1..4 : \/ i = 1 /\ SuppliesBearer(req.authorization)
                  \/ i = 2 /\ SuppliesPlain(req.xApiKey)
                  \/ i = 3 /\ SuppliesPlain(req.queryApiKey)
                  \/ i = 4 /\ SuppliesPlain(req.bodyApiKey)}

\* the key is taken from source i: a piece that follows the scheme of the
\* bearer header, the whole string of another source
TakenFrom(key, req, i) ==
    /\ key.def
    /\ i = 1 => \E j \in 2..Len(req.authorization.words) :
                    key.v = <<req.authorization.words[j]>>
    /\ i = 2 => key.v = req.xApiKey.words
    /\ i = 3 => key.v = req.queryApiKey.words
    /\ i = 4 => key.v = req.bodyApiKey.words

CallsOf(items) == SelectSeq(items, LAMBDA item : item.type = "function_call")

\* one tool-output turn per call, in call order and with the call's id
AnswersInOrder(output, calls) ==
    /\ Len(output) = Len(calls)
    /\ \A i \in 1..Len(calls) : /\ output[i].type = "function_call_output"
                                 /\ output[i].call_id = calls[i].call_id

\* C32: a round whose response has arrived with at least one tool call
\* appends the output items to the transcript in the order returned and goes
\* on to the tool calls without a request; from there the only way on is the
\* one further completion request, issued after one tool-output turn per call
\* has been appended in call order, and it carries the extended transcript
C32_ToolRoundThenOneRequest ==
    [][\A h \in Handlers :
          LET me == handlers[h]
              after == handlers'[h]
          IN  /\ (/\ me.pc = "streaming"
                  /\ after.pc # "streaming"
                  /\ after.error # "stream"
                  /\ CallsOf(me.items) # << >>)
                     => /\ after.pc = "tools"
                        /\ after.stack = CallsOf(me.items)
                        /\ sessions'[me.session].chatHistory =
                               sessions[me.session].chatHistory \o me.items
                        /\ nRequests' = nRequests
              /\ (me.pc = "tools" /\ after # me)
                     => /\ after.pc \in {"tools", "requested"}
                        /\ after.pc = "tools" =>
                               /\ sessions'[me.session].chatHistory =
                                      sessions[me.session].chatHistory
                               /\ nRequests' = nRequests
                        /\ after.pc = "requested" =>
                               /\ AnswersInOrder(me.output, me.stack)
                               /\ sessions'[me.session].chatHistory =
                                      sessions[me.session].chatHistory \o me.output
                               /\ nRequests' = nRequests + 1
                               /\ after.request = nRequests'
                               /\ after.sent = sessions'[me.session].chatHistory]_vars

InTurn(h) == handlers[h].op = "chat" /\ handlers[h].pc \in {"requested", "streaming", "tools"}

\* C33: a turn whose tool calls return and whose completion service answers,
\* in the end without tool calls, ends (chat() resolves or rejects); and
\* after the n-th request of the bounded run, for every n, a round whose tool
\* calls have all returned is followed by request n + 1
C33_TurnsEndAndRoundsAreNotCapped ==
    /\ \A h \in Clients : InTurn(h) ~> handlers[h].pc \in {"completed", "failed"}
    /\ \A h \in Clients : \A n \in 1..(MaxRequests - 1) :
           (/\ handlers[h].pc = "tools"
            /\ Len(handlers[h].output) = Len(handlers[h].stack)
            /\ handlers[h].request = n)
              ~> (handlers[h].pc = "requested" /\ handlers[h].request = n + 1)

\* one turn has come to its request number MaxRequests: every earlier
\* response of that turn held a tool call
C33_Witness ==
    \E h \in Clients :
        /\ handlers[h].pc = "requested"
        /\ handlers[h].request = MaxRequests
        /\ Cardinality({i \in 1..Len(handlers[h].sent) :
                           handlers[h].sent[i].type = "user"}) = 1
        /\ \E i \in 1..Len(handlers[h].sent) :
               handlers[h].sent[i].type = "function_call_output"

\* what was produced for the client, in the order of the queue: the message
\* and entries events (chunks are not persisted)
ProducedOf(items) ==
    LET shown == SelectSeq(items, LAMBDA e : e.type \in {"message", "entries"})
    IN  [i \in 1..Len(shown) |-> <<shown[i].type, shown[i].data, shown[i].bookIds>>]

\* what the log holds of the agent, in the order of the log
PersistedOf(log) ==
    LET said == SelectSeq(log, LAMBDA m : m.sender = "agent")
    IN  [i \in 1..Len(said) |->
            IF said[i].bookIds.def THEN <<"entries", << >>, said[i].bookIds>>
            ELSE <<"message", said[i].text, said[i].bookIds>>]

\* C34: the persisted log of a chat with a live session lists what the agent
\* produced in the order in which the events were enqueued, and no agent
\* message stands before the first user message
C34_LogInOrderOfProduction ==
    \A c \in Chats :
        (messagesQueues[c].present /\ hasSession(chatSessions, c)) =>
            /\ PersistedOf(chats[c]) = ProducedOf(messagesQueues[c].items)
            /\ chats[c] # << >> => chats[c][1].sender = "user"

\* C35: at the step in which chat() completes, getLastTokensUsed() of its
\* session is the sum of the total_tokens figures of the completion rounds of
\* that turn
C35_CounterIsTheTurnsTokens ==
    [][\A h \in Handlers :
          (/\ handlers'[h].op = "chat"
           /\ handlers'[h].pc = "completed"
           /\ handlers[h].pc # "completed")
             => sessions'[handlers'[h].session].lastTokensUsed = handlers'[h].reported]_vars

(***************************************************************************)
(* C36: when checkMessageQuota has reported allowed = TRUE for a user and  *)
(* no usage was recorded since, the next recordMessageUsage of that user   *)
(* is not denied by the message check, whatever the weight of its query.   *)
(***************************************************************************)
C36_AllowedCheckIsHonoured ==
    [][\A u \in QuotaUsers :
          (/\ lastCheck.user = u
           /\ lastCheck.check.allowed
           /\ lastCall' # lastCall
           /\ lastCall'.user = u)
             => lastCall'.cause # "messages"]_vars

(***************************************************************************)
(* C37: in every reachable state every chat id with a registered session   *)
(* has an event queue, also when create/resume and remove/terminate on the *)
(* same chat id overlap in time.                                           *)
(***************************************************************************)
C37_RegisteredSessionHasQueue ==
    \A c \in Chats : hasSession(chatSessions, c) => messagesQueues[c] # NoQueue

(***************************************************************************)
(* C38: terminateUserSessions(u) removes the session and the queue and     *)
(* purges the log of exactly the chats of u that had a live session when   *)
(* it started; the logs of u's chats without a live session and of other   *)
(* users' chats, and other users' sessions and queues, are unchanged.      *)
(***************************************************************************)
LiveChatsOf(u) ==
    {c \in Chats : /\ hasSession(chatSessions, c)
                   /\ sessions[getSession(chatSessions, c)].userId = u}

\* the chats a step touches: the log, the queue or the registered session
Touched ==
    {c \in Chats : \/ chats'[c] # chats[c]
                   \/ messagesQueues'[c] # messagesQueues[c]
                   \/ getSession(chatSessions', c) # getSession(chatSessions, c)}

Terminated == {c \in Chats : hasSession(chatSessions, c) /\ ~hasSession(chatSessions', c)}

C38_TerminatePurgesLiveChatsOfUserOnly ==
    [][\A h \in Handlers :
          (handlers[h].pc \in {"blocking", "terminating"} /\ handlers'[h] # handlers[h]) =>
              LET u == handlers[h].userId
                  left == {handlers'[h].entries[i].chatId :
                              i \in 1..Len(handlers'[h].entries)}
              IN  /\ Touched \subseteq Terminated
                  /\ \A c \in Terminated :
                        /\ c \in LiveChatsOf(u)
                        /\ chatsMetadata[c].userId = u
                        /\ chats'[c] = << >>
                        /\ messagesQueues'[c] = NoQueue
                  /\ handlers[h].pc = "blocking" =>
                        Terminated \cup left = LiveChatsOf(u)
                  /\ handlers[h].pc = "terminating" =>
                        /\ Terminated \cup left =
                              {handlers[h].entries[i].chatId : i \in 1..Len(handlers[h].entries)}
                        /\ handlers[h].entries # << >> => Terminated # {}]_vars

\* u1 was blocked and its sessions terminated: its chat has neither session nor
\* log, while the chat of u2 keeps its session and its log
C38_Witness ==
    /\ handlers["h2"].pc = "terminated"
    /\ handlers["h2"].userId = "u1"
    /\ chatsMetadata["c1"].userId = "u1"
    /\ ~hasSession(chatSessions, "c1")
    /\ chats["c1"] = << >>
    /\ chatsMetadata["c1"].messageCount > 0
    /\ chatsMetadata["c2"].userId = "u2"
    /\ hasSession(chatSessions, "c2")
    /\ chats["c2"] # << >>

(***************************************************************************)
(* C39: after any sequence of logMessage and clearChatHistory calls on a   *)
(* chat, the message count stored with the chat is the number of messages  *)
(* in its log.                                                             *)
(***************************************************************************)
C39_MessageCountIsLogLength ==
    \A c \in Chats :
        chatsMetadata[c].exists => chatsMetadata[c].messageCount = Len(chats[c])

(***************************************************************************)
(* C40: initUser on a user that exists changes neither the blocked flag    *)
(* nor the creation timestamp of any user, and a blocked user becomes      *)
(* unblocked only by the administrator's unblock request.                  *)
(***************************************************************************)
C40_InitUserKeepsBlockedAndCreatedAt ==
    [][/\ \A h \in Handlers :
            (handlers[h].pc = "idle" /\ handlers'[h].op = "initUser") =>
                \A u \in Users :
                    users[u].exists =>
                        /\ users'[u].blocked = users[u].blocked
                        /\ users'[u].createdAt = users[u].createdAt
       /\ \A u \in Users :
            (users[u].exists /\ users[u].blocked /\ ~users'[u].blocked) =>
                \E h \in Admins : /\ handlers[h].pc = "idle"
                                   /\ handlers'[h].op = "block"
                                   /\ handlers'[h].userId = u]_vars

\* a blocked user, created on day 0, has just been verified again on day 1
\* under another name
C40_Witness ==
    \E h \in Clients, u \in Users :
        /\ handlers[h].op = "initUser"
        /\ handlers[h].userId = u
        /\ users[u].blocked
        /\ users[u].name = "n2"
        /\ users[u].createdAt.day = 0
        /\ users[u].lastSeenAt.day = 1

====
